---- MODULE Spec2Model ----
(***************************************************************************)
(* A model of the KUMO router label manager: the label data model, the     *)
(* REST and Telnet protocol clients, the APIAgent orchestrator that chains  *)
(* them, and the Videohub block upload of the command line tool.            *)
(*                                                                          *)
(* Text is modelled by TLA+ strings and processed character by character    *)
(* (Head, Tail, SubSeq, \o), so formatting and parsing are computed, not    *)
(* assumed.  A Python value whose type the code tests at run time is a      *)
(* tagged record (Str, Num, NoneV, List, Dict).                             *)
(***************************************************************************)
EXTENDS Integers, Sequences, FiniteSets, TLC

VARIABLES
    router,          \* the device at router_ip: how it treats what it is sent
    last_protocol,   \* APIAgent._last_protocol ("none" while it is None)
    call             \* the operation requested or completed last: its inputs,
                     \* what it sent and to whom, and what it returned

vars == <<router, last_protocol, call>>

-----------------------------------------------------------------------------
(* Python values *)

NoneV == [t |-> "none", s |-> "", n |-> 0, seq |-> <<>>, d |-> <<>>]
Str(text) == [t |-> "str", s |-> text, n |-> 0, seq |-> <<>>, d |-> <<>>]
Num(k) == [t |-> "int", s |-> "", n |-> k, seq |-> <<>>, d |-> <<>>]
List(items) == [t |-> "list", s |-> "", n |-> 0, seq |-> items, d |-> <<>>]
Dict(fields) == [t |-> "dict", s |-> "", n |-> 0, seq |-> <<>>, d |-> fields]

\* bool(v): None, "", 0, [] and {} are false.
Truthy(v) ==
    CASE v.t = "none" -> FALSE
      [] v.t = "str" -> v.s # ""
      [] v.t = "int" -> v.n # 0
      [] v.t = "list" -> v.seq # <<>>
      [] v.t = "dict" -> DOMAIN v.d # {}

\* str(v) for the values a JSON document holds.
PyStr(v) ==
    CASE v.t = "str" -> v.s
      [] v.t = "int" -> ToString(v.n)
      [] v.t = "none" -> "None"
      [] OTHER -> "<object>"

Whitespace == {" ", "\t", "\n", "\r"}

Min(S) == CHOOSE x \in S : \A y \in S : x <= y

\* str.strip(): the text without its leading and trailing whitespace.
Strip(text) ==
    LET n == Len(text)
        solid(i) == SubSeq(text, i, i) \notin Whitespace
    IN IF \A i \in 1..n : ~solid(i) THEN ""
       ELSE LET first == CHOOSE i \in 1..n : solid(i) /\ \A j \in 1..(i - 1) : ~solid(j)
                cut == CHOOSE k \in 0..(n - 1) :
                           solid(n - k) /\ \A j \in 0..(k - 1) : ~solid(n - j)
            IN SubSeq(text, first, n - cut)

\* text * k
RECURSIVE Repeat(_, _)
Repeat(text, k) ==
    IF k = 0 THEN ""
    ELSE LET half == Repeat(text, k \div 2)
         IN half \o half \o (IF k % 2 = 1 THEN text ELSE "")

-----------------------------------------------------------------------------
(* models/label.py *)

MAX_PORT_NUMBER == 120
MAX_LABEL_LENGTH == 255

PortTypes == {"INPUT", "OUTPUT"}

\* Label.__post_init__: the three validations; FALSE when one of them raises.
LabelValid(port_number, port_type, current_label, new_label) ==
    /\ port_number \in 1..MAX_PORT_NUMBER
    /\ port_type \in PortTypes
    /\ current_label.t = "str"
    /\ new_label.t \in {"none", "str"}
    /\ Len(current_label.s) <= MAX_LABEL_LENGTH
    /\ (new_label.t = "str" => Len(new_label.s) <= MAX_LABEL_LENGTH)

Label(port_number, port_type, current_label, new_label) ==
    [port_number |-> port_number, port_type |-> port_type,
     current_label |-> current_label, new_label |-> new_label]

\* A has_changes that takes every label for changed.
has_changes_always(label) == label = label

\* A has_changes that forgets the None test.
has_changes_no_none_test(label) == label.new_label # label.current_label

\* Label.has_changes
has_changes(label) ==
    label.new_label # NoneV /\ label.new_label # label.current_label

-----------------------------------------------------------------------------
(* agents/api_agent/router_protocols.py *)

BULK_PORTS == 32
DEFAULT_PORTS == 32

Protocols == {"rest_bulk", "rest_individual", "telnet", "default"}

generate_input_label(port) == "Input " \o ToString(port)
generate_output_label(port) == "Output " \o ToString(port)

\* A generator of defaults that knows no port.
generate_no_labels == Dict([inputs |-> List(<<>>), outputs |-> List(<<>>)])

\* Generated defaults that number the ports from 0.
generate_default_labels_from_zero ==
    Dict([inputs |-> List([i \in 1..DEFAULT_PORTS |-> Str("Input " \o ToString(i - 1))]),
          outputs |-> List([i \in 1..DEFAULT_PORTS |-> Str("Output " \o ToString(i - 1))])])

\* DefaultLabelGenerator.generate_default_labels
generate_default_labels ==
    Dict([inputs |-> List([i \in 1..DEFAULT_PORTS |-> Str("Input " \o ToString(i))]),
          outputs |-> List([i \in 1..DEFAULT_PORTS |-> Str("Output " \o ToString(i))])])

\* len(v) raises TypeError for a number or null.
HasLen(v) == v.t \in {"list", "str", "dict"}
PyLen(v) ==
    CASE v.t = "list" -> Len(v.seq)
      [] v.t = "str" -> Len(v.s)
      [] v.t = "dict" -> Cardinality(DOMAIN v.d)
      [] OTHER -> 0

\* v[i] for 0 <= i < len(v): an element of a list, a character of a string;
\* a JSON object has no integer key and raises KeyError.
Indexable(v) == v.t \in {"list", "str"}
PyItem(v, i) == IF v.t = "list" THEN v.seq[i + 1] ELSE Str(SubSeq(v.s, i + 1, i + 1))

\* One entry of parse_bulk_config: item.get("label", default) or str(item).
BulkItemLabel(item, default) ==
    IF item.t = "dict"
    THEN IF "label" \in DOMAIN item.d THEN item.d["label"] ELSE Str(default)
    ELSE Str(PyStr(item))

\* The loop over range(32) of parse_bulk_config for one key; raised is TRUE
\* when it stops with TypeError or KeyError.
BulkSide(response, key, prefix) ==
    IF key \notin DOMAIN response.d THEN [raised |-> FALSE, labels |-> <<>>]
    ELSE LET v == response.d[key] IN
         IF ~HasLen(v) \/ (PyLen(v) > 0 /\ ~Indexable(v))
         THEN [raised |-> TRUE, labels |-> <<>>]
         ELSE [raised |-> FALSE,
               labels |-> [i \in 1..BULK_PORTS |->
                            IF i - 1 < PyLen(v)
                            THEN BulkItemLabel(PyItem(v, i - 1), prefix \o ToString(i))
                            ELSE Str(prefix \o ToString(i))]]

\* ResponseParser.parse_bulk_config
parse_bulk_config(response) ==
    LET ins == BulkSide(response, "inputs", "Input ")
        outs == BulkSide(response, "outputs", "Output ")
    IN IF ins.raised \/ outs.raised THEN NoneV
       ELSE IF ins.labels # <<>> \/ outs.labels # <<>>
            THEN Dict([inputs |-> List(ins.labels), outputs |-> List(outs.labels)])
            ELSE NoneV

\* ResponseParser.parse_individual_port
parse_individual_port(response) ==
    IF response.t = "dict" /\ "label" \in DOMAIN response.d
    THEN Str(PyStr(response.d["label"]))
    ELSE IF response.t = "str" /\ Strip(response.s) # ""
         THEN Str(Strip(response.s))
         ELSE NoneV

Quote == "\""

\* LABEL_RESPONSE_PATTERN.search: the leftmost "([^"]+)" of the text, which
\* starts at the first double quote that is followed by at least one other
\* character and then by the next double quote.
SearchQuoted(text) ==
    LET quotes == {i \in 1..Len(text) : SubSeq(text, i, i) = Quote}
        closing(i) == {j \in quotes : j > i}
        opens == {i \in quotes : closing(i) # {} /\ Min(closing(i)) > i + 1}
    IN IF opens = {} THEN NoneV
       ELSE LET i == Min(opens)
            IN Str(SubSeq(text, i + 1, Min(closing(i)) - 1))

\* TelnetCommand.parse_label_response
parse_label_response(response) ==
    IF response = "" THEN NoneV ELSE SearchQuoted(response)

\* str.replace('"', '\\"')
RECURSIVE EscapeQuotes(_)
EscapeQuotes(text) ==
    IF text = "" THEN ""
    ELSE (IF Head(text) = Quote THEN "\\\"" ELSE Head(text)) \o EscapeQuotes(Tail(text))

\* TelnetCommand.query_input / query_output
query_command(port_type, port) == "LABEL " \o port_type \o " " \o ToString(port) \o " ?"

\* TelnetCommand.set_input / set_output
set_command(port_type, port, label) ==
    "LABEL " \o port_type \o " " \o ToString(port) \o " \"" \o EscapeQuotes(label) \o "\""

-----------------------------------------------------------------------------
(* agents/api_agent/rest_client.py *)

MAX_RETRIES == 3
RETRY_BACKOFF_BASE == 1
RETRY_BACKOFF_MULTIPLIER == 2
BULK_RETRIES == 2
PORT_QUERY_RETRIES == 1
UPLOAD_RETRIES == 2
REST_PORTS == 32

\* What one attempt of session.request comes to.
HttpTimeout == [kind |-> "timeout", status |-> 0, is_json |-> FALSE, body |-> NoneV]
HttpClientError == [kind |-> "client_error", status |-> 0, is_json |-> FALSE, body |-> NoneV]
HttpStatus(code) == [kind |-> "response", status |-> code, is_json |-> FALSE, body |-> Str("")]
HttpJson(value) == [kind |-> "response", status |-> 200, is_json |-> TRUE, body |-> value]
HttpText(text) == [kind |-> "response", status |-> 200, is_json |-> FALSE, body |-> Str(text)]
\* Status 200, and reading the body fails both as JSON and as text (the
\* connection breaks or the time is up): response.text() raises.
HttpBrokenBody == [kind |-> "body_error", status |-> 200, is_json |-> FALSE, body |-> NoneV]

\* How the device treats a request it does not serve.
FailModes == {"timeout", "http_error", "client_error", "body_error"}
HttpFailure(mode) ==
    CASE mode = "timeout" -> HttpTimeout
      [] mode = "http_error" -> HttpStatus(404)
      [] mode = "body_error" -> HttpBrokenBody
      [] OTHER -> HttpClientError

\* The device as the REST client meets it: the GET paths it answers and with
\* what, the PUT paths and the setlabel bodies it accepts, how it fails the
\* rest, and how many leading attempts of every request are lost.
Device(mode, glitch, get, put_ok, cgi_ok) ==
    [mode |-> mode, glitch |-> glitch, get |-> get, put_ok |-> put_ok, cgi_ok |-> cgi_ok]

DeviceReply(dev, method, endpoint, json_data) ==
    CASE method = "GET" ->
           IF endpoint \in DOMAIN dev.get THEN dev.get[endpoint] ELSE HttpFailure(dev.mode)
      [] method = "PUT" ->
           IF endpoint \in dev.put_ok THEN HttpJson(Dict([status |-> Str("ok")]))
           ELSE HttpFailure(dev.mode)
      [] OTHER ->
           IF <<json_data.type, json_data.port>> \in dev.cgi_ok THEN HttpText("OK")
           ELSE HttpFailure(dev.mode)

\* The outcome of attempt number `attempt` (from 0) of a request.
AttemptOutcome(dev, method, endpoint, json_data, attempt) ==
    IF attempt < dev.glitch THEN HttpTimeout
    ELSE DeviceReply(dev, method, endpoint, json_data)

\* A backoff that grows by steps instead of by factors.
PowerLinear(base, k) == base * k

RECURSIVE Power(_, _)
Power(base, k) == IF k = 0 THEN 1 ELSE base * Power(base, k - 1)

\* RestClient._make_request, from attempt number `attempt` on.
RECURSIVE RequestFrom(_, _, _, _, _, _)
RequestFrom(dev, method, endpoint, json_data, retries, attempt) ==
    IF attempt >= retries
    THEN [success |-> FALSE, data |-> NoneV, attempts |-> attempt, sleeps |-> <<>>]
    ELSE LET a == AttemptOutcome(dev, method, endpoint, json_data, attempt) IN
         IF a.kind = "response" /\ a.status = 200
         THEN [success |-> TRUE, data |-> a.body, attempts |-> attempt + 1, sleeps |-> <<>>]
         ELSE LET rest == RequestFrom(dev, method, endpoint, json_data, retries, attempt + 1)
                  backoff == RETRY_BACKOFF_BASE * Power(RETRY_BACKOFF_MULTIPLIER, attempt)
              IN [rest EXCEPT !.sleeps =
                     IF attempt < retries - 1 THEN <<backoff>> \o @ ELSE @]

\* A request that gives up after its first attempt.
make_request_once(dev, method, endpoint, json_data, retries) ==
    RequestFrom(dev, method, endpoint, json_data, IF retries > 1 THEN 1 ELSE retries, 0)

\* RestClient._make_request
make_request(dev, method, endpoint, json_data, retries) ==
    RequestFrom(dev, method, endpoint, json_data, retries, 0)

\* APIEndpoint.get_bulk_endpoints
bulk_endpoints ==
    <<"/api/config", "/api/status", "/cgi-bin/config", "/config.json", "/status.json">>

\* APIEndpoint.get_individual_input_endpoints / get_individual_output_endpoints
individual_endpoints(port_type, port) ==
    IF port_type = "INPUT"
    THEN <<"/api/inputs/" \o ToString(port),
           "/cgi-bin/getlabel?type=input&port=" \o ToString(port)>>
    ELSE <<"/api/outputs/" \o ToString(port),
           "/cgi-bin/getlabel?type=output&port=" \o ToString(port)>>

\* APIEndpoint.INPUT_LABEL_UPDATE / OUTPUT_LABEL_UPDATE
update_endpoint(port_type, port) ==
    IF port_type = "INPUT"
    THEN "/api/inputs/" \o ToString(port) \o "/label"
    ELSE "/api/outputs/" \o ToString(port) \o "/label"

CGI_SET_LABEL == "/cgi-bin/setlabel"

\* The loop of download_labels_bulk from endpoint number e on.
RECURSIVE BulkFrom(_, _)
BulkFrom(dev, e) ==
    IF e > Len(bulk_endpoints) THEN NoneV
    ELSE LET r == make_request(dev, "GET", bulk_endpoints[e], NoneV, BULK_RETRIES)
             labels == IF r.success /\ Truthy(r.data) /\ r.data.t = "dict"
                       THEN parse_bulk_config(r.data) ELSE NoneV
         IN IF Truthy(labels) THEN labels ELSE BulkFrom(dev, e + 1)

\* A bulk download that does not say which protocol served it.
download_labels_bulk_untagged(dev) == [protocol |-> "default", labels |-> BulkFrom(dev, 1)]

\* RestClient.download_labels_bulk
download_labels_bulk(dev) == [protocol |-> "rest_bulk", labels |-> BulkFrom(dev, 1)]

\* The loop of _query_input_label / _query_output_label from endpoint e on.
RECURSIVE QueryFrom(_, _, _)
QueryFrom(dev, endpoints, e) ==
    IF e > Len(endpoints) THEN NoneV
    ELSE LET r == make_request(dev, "GET", endpoints[e], NoneV, PORT_QUERY_RETRIES)
             label == IF r.success /\ Truthy(r.data)
                      THEN parse_individual_port(r.data) ELSE NoneV
         IN IF Truthy(label) THEN label ELSE QueryFrom(dev, endpoints, e + 1)

\* RestClient._query_input_label / _query_output_label
query_label(dev, port_type, port) == QueryFrom(dev, individual_endpoints(port_type, port), 1)

\* A port-count detection that probes the smaller router first.
detect_port_count_ascending(dev) ==
    IF Truthy(query_label(dev, "INPUT", 17)) THEN 32
    ELSE IF Truthy(query_label(dev, "INPUT", 33)) THEN 64
    ELSE 16

\* RestClient.detect_port_count, which KumoManager.show_status calls: the
\* name of source 33 can be read (64 ports), else that of source 17 (32
\* ports), else 16.
detect_port_count(dev) ==
    IF Truthy(query_label(dev, "INPUT", 33)) THEN 64
    ELSE IF Truthy(query_label(dev, "INPUT", 17)) THEN 32
    ELSE 16

\* An individual download that fails as soon as one port has no label.
download_labels_individual_strict(dev) ==
    LET got == [ty \in PortTypes |-> [p \in 1..REST_PORTS |-> query_label(dev, ty, p)]]
    IN [protocol |-> "rest_individual",
        labels |-> IF \A ty \in PortTypes : \A p \in 1..REST_PORTS : Truthy(got[ty][p])
                   THEN Dict([inputs |-> List(got["INPUT"]), outputs |-> List(got["OUTPUT"])])
                   ELSE NoneV]

\* RestClient.download_labels_individual
download_labels_individual(dev) ==
    LET got == [ty \in PortTypes |-> [p \in 1..REST_PORTS |-> query_label(dev, ty, p)]]
        success_count == Cardinality({<<ty, p>> \in PortTypes \X (1..REST_PORTS) :
                                          Truthy(got[ty][p])})
    IN [protocol |-> "rest_individual",
        labels |-> IF success_count > 0
                   THEN Dict([inputs |-> List([p \in 1..REST_PORTS |->
                                      IF Truthy(got["INPUT"][p]) THEN got["INPUT"][p]
                                      ELSE Str(generate_input_label(p))]),
                              outputs |-> List([p \in 1..REST_PORTS |->
                                      IF Truthy(got["OUTPUT"][p]) THEN got["OUTPUT"][p]
                                      ELSE Str(generate_output_label(p))])])
                   ELSE NoneV]

\* RestClient.upload_label: PUT to the update endpoint, then POST to the CGI
\* endpoint; log is the requests made, in order.
rest_upload_label(dev, item) ==
    IF item.type \notin PortTypes
    THEN [success |-> FALSE, error_msg |-> "Invalid port type: " \o item.type, log |-> <<>>]
    ELSE LET endpoint == update_endpoint(item.type, item.port)
             body == [label |-> item.label]
             put == make_request(dev, "PUT", endpoint, body, UPLOAD_RETRIES)
             cgi_body == [type |-> item.type, port |-> item.port, label |-> item.label]
             post == make_request(dev, "POST", CGI_SET_LABEL, cgi_body, UPLOAD_RETRIES)
             put_log == [protocol |-> "rest", method |-> "PUT", target |-> endpoint,
                         port |-> item.port, type |-> item.type, label |-> item.label]
             post_log == [protocol |-> "rest", method |-> "POST", target |-> CGI_SET_LABEL,
                          port |-> item.port, type |-> item.type, label |-> item.label]
         IN IF put.success
            THEN [success |-> TRUE, error_msg |-> "", log |-> <<put_log>>]
            ELSE IF post.success
                 THEN [success |-> TRUE, error_msg |-> "", log |-> <<put_log, post_log>>]
                 ELSE [success |-> FALSE,
                       error_msg |-> "Failed to upload " \o item.type \o " "
                                       \o ToString(item.port) \o " label",
                       log |-> <<put_log, post_log>>]

\* What a batch upload comes to: raised when the progress callback raised
\* (the counts are then lost with the frame), log is what went to the device.
BatchResult(raised, success_count, error_count, error_messages, log) ==
    [raised |-> raised, success_count |-> success_count, error_count |-> error_count,
     error_messages |-> error_messages, log |-> log]

\* A step that does not count a failing item.
BatchStepNoErrorCount(u, rest) ==
    BatchResult(rest.raised,
                rest.success_count + (IF u.success THEN 1 ELSE 0),
                rest.error_count,
                (IF u.success \/ u.error_msg = "" THEN <<>> ELSE <<u.error_msg>>)
                    \o rest.error_messages,
                u.log \o rest.log)

\* A step that drops the message of a failing item.
BatchStepNoMessage(u, rest) ==
    BatchResult(rest.raised,
                rest.success_count + (IF u.success THEN 1 ELSE 0),
                rest.error_count + (IF u.success THEN 0 ELSE 1),
                rest.error_messages,
                u.log \o rest.log)

\* The outcome of one item added to the outcome of the items after it.
BatchStep(u, rest) ==
    BatchResult(rest.raised,
                rest.success_count + (IF u.success THEN 1 ELSE 0),
                rest.error_count + (IF u.success THEN 0 ELSE 1),
                (IF u.success \/ u.error_msg = "" THEN <<>> ELSE <<u.error_msg>>)
                    \o rest.error_messages,
                u.log \o rest.log)

\* A loop that gives up at the first item that fails.
RECURSIVE RestBatchAbortingFrom(_, _, _, _)
RestBatchAbortingFrom(dev, labels, cb_raise_at, idx) ==
    IF idx > Len(labels) THEN BatchResult(FALSE, 0, 0, <<>>, <<>>)
    ELSE IF idx = cb_raise_at THEN BatchResult(TRUE, 0, 0, <<>>, <<>>)
    ELSE LET u == rest_upload_label(dev, labels[idx]) IN
         IF ~u.success THEN BatchResult(FALSE, 0, 1, <<u.error_msg>>, u.log)
         ELSE BatchStep(u, RestBatchAbortingFrom(dev, labels, cb_raise_at, idx + 1))

\* The loop of RestClient.upload_labels_batch from item number idx on;
\* cb_raise_at is the call at which the progress callback raises (0: there is
\* no callback, or it never raises).
RECURSIVE RestBatchFrom(_, _, _, _)
RestBatchFrom(dev, labels, cb_raise_at, idx) ==
    IF idx > Len(labels) THEN BatchResult(FALSE, 0, 0, <<>>, <<>>)
    ELSE IF idx = cb_raise_at THEN BatchResult(TRUE, 0, 0, <<>>, <<>>)
    ELSE BatchStep(rest_upload_label(dev, labels[idx]),
                   RestBatchFrom(dev, labels, cb_raise_at, idx + 1))

\* RestClient.upload_labels_batch
rest_upload_labels_batch(dev, labels, cb_raise_at) ==
    RestBatchFrom(dev, labels, cb_raise_at, 1)

-----------------------------------------------------------------------------
(* agents/api_agent/telnet_client.py *)

TELNET_PORT_COUNT == 32

\* What the device does with one command line: it answers in time, answers
\* after the command's timeout has expired, stays silent, or has closed the
\* connection (readline then returns no bytes at once).
TelnetReply(kind, text) == [kind |-> kind, text |-> text]
TelnetReplyKinds == {"reply", "late", "silent", "eof"}

\* TelnetClient.connect: the connection is established, or the connect timed
\* out or was refused, or reading the banner failed after the socket was open.
TelnetConnectOutcomes == {"ok", "timeout", "refused", "banner_error"}
telnet_connect(outcome) ==
    [connected |-> outcome = "ok", raised |-> outcome # "ok",
     socket_open |-> outcome \in {"ok", "banner_error"}]

\* `async with TelnetClient(ip) as telnet:` - whether the session leaves its
\* socket open.  __aenter__ is connect(); __aexit__, the only caller of
\* disconnect(), runs when __aenter__ returned.  A connect that raises after
\* open_connection succeeded keeps the writer and closes nothing.
telnet_session_leaves_open(outcome) ==
    telnet_connect(outcome).raised /\ telnet_connect(outcome).socket_open

\* TelnetClient._send_command: the line written, then one readline under the
\* command timeout.  buffer is what the stream reader holds unread: a line that
\* came after an earlier command timed out is the first one read.
send_command(buffer, reply) ==
    LET arrived == IF reply.kind \in {"reply", "late"} THEN <<reply.text>> ELSE <<>> IN
    IF buffer # <<>>
    THEN [response |-> Str(Strip(Head(buffer))), buffer |-> Tail(buffer) \o arrived]
    ELSE CASE reply.kind = "reply" -> [response |-> Str(Strip(reply.text)), buffer |-> <<>>]
           [] reply.kind = "eof" -> [response |-> Str(""), buffer |-> <<>>]
           [] OTHER -> [response |-> NoneV, buffer |-> arrived]

\* The responses to a sequence of commands on one connection, from command i on.
RECURSIVE SessionFrom(_, _, _)
SessionFrom(replies, i, buffer) ==
    IF i > Len(replies) THEN <<>>
    ELSE LET x == send_command(buffer, replies[i])
         IN <<x.response>> \o SessionFrom(replies, i + 1, x.buffer)

\* One port of TelnetClient.download_labels: the parsed label, or NoneV.
TelnetLabel(response) ==
    IF Truthy(response) THEN parse_label_response(response.s) ELSE NoneV

\* TelnetClient.download_labels; replies are the device's replies to the
\* queries for inputs 1..port_count, then outputs 1..port_count.
telnet_download_labels(replies) ==
    LET port_count == TELNET_PORT_COUNT
        responses == SessionFrom(replies, 1, <<>>)
        ins == [p \in 1..port_count |-> TelnetLabel(responses[p])]
        outs == [p \in 1..port_count |-> TelnetLabel(responses[port_count + p])]
        success_count == Cardinality({p \in 1..port_count : Truthy(ins[p])})
                         + Cardinality({p \in 1..port_count : Truthy(outs[p])})
    IN [protocol |-> "telnet",
        labels |-> IF success_count > 0
                   THEN Dict([inputs |-> List([p \in 1..port_count |->
                                      IF Truthy(ins[p]) THEN ins[p]
                                      ELSE Str(generate_input_label(p))]),
                              outputs |-> List([p \in 1..port_count |->
                                      IF Truthy(outs[p]) THEN outs[p]
                                      ELSE Str(generate_output_label(p))])])
                   ELSE NoneV]

\* TelnetClient.upload_label, given the response _send_command returned.
telnet_upload_label(item, response) ==
    LET sent == [protocol |-> "telnet", method |-> "LABEL",
                 target |-> set_command(item.type, item.port, item.label),
                 port |-> item.port, type |-> item.type, label |-> item.label]
    IN IF item.type \notin PortTypes
       THEN [success |-> FALSE, error_msg |-> "Invalid port type: " \o item.type, log |-> <<>>]
       ELSE IF response # NoneV
            THEN [success |-> TRUE, error_msg |-> "", log |-> <<sent>>]
            ELSE [success |-> FALSE,
                  error_msg |-> "Failed to upload " \o item.type \o " "
                                  \o ToString(item.port) \o " label via Telnet",
                  log |-> <<sent>>]

\* The loop of TelnetClient.upload_labels_batch from item number idx on;
\* responses[i] is what _send_command returns for labels[i].
RECURSIVE TelnetBatchFrom(_, _, _, _)
TelnetBatchFrom(responses, labels, cb_raise_at, idx) ==
    IF idx > Len(labels) THEN BatchResult(FALSE, 0, 0, <<>>, <<>>)
    ELSE IF idx = cb_raise_at THEN BatchResult(TRUE, 0, 0, <<>>, <<>>)
    ELSE BatchStep(telnet_upload_label(labels[idx], responses[idx]),
                   TelnetBatchFrom(responses, labels, cb_raise_at, idx + 1))

\* TelnetClient.upload_labels_batch; replies[i] is the device's reply to the
\* command for labels[i].
telnet_upload_labels_batch(replies, labels, cb_raise_at) ==
    TelnetBatchFrom(SessionFrom(replies, 1, <<>>), labels, cb_raise_at, 1)

-----------------------------------------------------------------------------
(* agents/api_agent/__init__.py *)

\* labels_dict.get(key, [])
DictList(labels_dict, key) ==
    IF key \in DOMAIN labels_dict.d THEN labels_dict.d[key].seq ELSE <<>>

\* APIAgent._dict_to_labels; raised is TRUE when a Label constructor raises.
dict_to_labels(labels_dict) ==
    LET ins == DictList(labels_dict, "inputs")
        outs == DictList(labels_dict, "outputs")
        valid == /\ \A i \in 1..Len(ins) : LabelValid(i, "INPUT", ins[i], NoneV)
                 /\ \A i \in 1..Len(outs) : LabelValid(i, "OUTPUT", outs[i], NoneV)
    IN [raised |-> ~valid,
        labels |-> IF valid
                   THEN [i \in 1..Len(ins) |-> Label(i, "INPUT", ins[i], NoneV)]
                        \o [i \in 1..Len(outs) |-> Label(i, "OUTPUT", outs[i], NoneV)]
                   ELSE <<>>]

\* The Telnet side of a call: how the connect ends and the device's replies
\* to the commands, in the order the commands are sent.
TelnetPeer(connect, replies) == [connect |-> connect, replies |-> replies]

\* lines 110-116: what the REST client hands back, the bulk result when it
\* holds labels and the result of the individual endpoints otherwise.
RestStage(bulk, individual) == IF bulk.labels # NoneV THEN bulk ELSE individual

\* lines 119-125: the Telnet stage; an exception of the client is logged and
\* leaves protocol_used and labels_dict as REST left them.
TelnetStage(rest, tel) ==
    IF telnet_connect(tel.connect).raised
    THEN [protocol |-> rest.protocol, labels |-> NoneV]
    ELSE telnet_download_labels(tel.replies)

\* lines 128-131: the defaults, when no stage gave labels.
UsedLabels(fetched) ==
    IF fetched.labels = NoneV
    THEN [protocol |-> "default", labels |-> generate_default_labels]
    ELSE fetched

\* The stages started, in order (lines 111, 114, 119, 128).
StagesStarted(bulk, rest, fetched) ==
    <<"rest_bulk">>
    \o (IF bulk.labels = NoneV THEN <<"rest_individual">> ELSE <<>>)
    \o (IF rest.labels = NoneV THEN <<"telnet">> ELSE <<>>)
    \o (IF fetched.labels = NoneV THEN <<"default">> ELSE <<>>)

\* The labels_dict each started stage came to.
StageProduced(stages, bulk, individual, telnet) ==
    [st \in {stages[i] : i \in 1..Len(stages)} |->
        CASE st = "rest_bulk" -> bulk.labels
          [] st = "rest_individual" -> individual.labels
          [] st = "telnet" -> telnet.labels
          [] OTHER -> generate_default_labels]

\* lines 134-168: the protocol is stored, then the labels are converted; an
\* exception of the conversion is caught and the defaults are converted.
DownloadReturn(used, converted, fallback, stages, produced) ==
    IF ~converted.raised
    THEN [labels |-> converted.labels, last_protocol |-> used.protocol,
          path |-> "try", raised |-> FALSE, stages |-> stages, produced |-> produced]
    ELSE [labels |-> fallback.labels, last_protocol |-> used.protocol,
          path |-> "except", raised |-> fallback.raised,
          stages |-> stages, produced |-> produced]

DownloadFetched(bulk, individual, rest, telnet, fetched) ==
    DownloadReturn(UsedLabels(fetched), dict_to_labels(UsedLabels(fetched).labels),
                   dict_to_labels(generate_default_labels),
                   StagesStarted(bulk, rest, fetched),
                   StageProduced(StagesStarted(bulk, rest, fetched), bulk, individual, telnet))

DownloadAfterTelnet(bulk, individual, rest, telnet) ==
    DownloadFetched(bulk, individual, rest, telnet,
                    IF rest.labels # NoneV THEN rest ELSE telnet)

DownloadAfterRest(bulk, individual, tel) ==
    DownloadAfterTelnet(bulk, individual, RestStage(bulk, individual),
                        TelnetStage(RestStage(bulk, individual), tel))

\* APIAgent.download_labels on the REST device dev and the Telnet peer tel.
\* stages are the stages started, in order; produced[s] is the labels_dict
\* stage s came to; last_protocol is what line 134 stored; raised tells
\* whether an exception leaves the method.
download_labels(dev, tel) ==
    DownloadAfterRest(download_labels_bulk(dev), download_labels_individual(dev), tel)

\* The upload format of one changed label.
UploadItem(label) ==
    [port |-> label.port_number, type |-> label.port_type, label |-> label.new_label.s]

UploadOutcome(success_count, error_count, error_messages, connections, log) ==
    [success_count |-> success_count, error_count |-> error_count,
     error_messages |-> error_messages, raised |-> FALSE,
     connections |-> connections, log |-> log]

\* An upload_labels that keeps the REST result only when no label failed.
upload_labels_retrying(labels, dev, tel, cb_raise_at) ==
    LET labels_to_upload == SelectSeq(labels, has_changes)
        upload_data == [i \in 1..Len(labels_to_upload) |-> UploadItem(labels_to_upload[i])]
        rest == rest_upload_labels_batch(dev, upload_data, cb_raise_at)
        \* the three locals once the REST attempt is over
        counts == IF rest.raised
                  THEN [success_count |-> 0, error_count |-> 0, error_messages |-> <<>>]
                  ELSE [success_count |-> rest.success_count,
                        error_count |-> rest.error_count,
                        error_messages |-> rest.error_messages]
        conn == telnet_connect(tel.connect)
        telnet == telnet_upload_labels_batch(tel.replies, upload_data, cb_raise_at)
    IN IF labels_to_upload = <<>> THEN UploadOutcome(0, 0, <<>>, <<>>, <<>>)
       ELSE IF ~rest.raised /\ rest.error_count = 0
       THEN UploadOutcome(rest.success_count, rest.error_count, rest.error_messages,
                          <<"rest">>, rest.log)
       ELSE IF conn.raised
       THEN UploadOutcome(counts.success_count, Len(labels_to_upload),
                          counts.error_messages
                              \o <<"Telnet upload failed: " \o tel.connect,
                                   "All upload methods failed">>,
                          <<"rest", "telnet">>, rest.log)
       ELSE IF telnet.raised
       THEN UploadOutcome(counts.success_count, Len(labels_to_upload),
                          counts.error_messages
                              \o <<"Telnet upload failed: callback",
                                   "All upload methods failed">>,
                          <<"rest", "telnet">>, rest.log \o telnet.log)
       ELSE UploadOutcome(telnet.success_count, telnet.error_count, telnet.error_messages,
                          <<"rest", "telnet">>, rest.log \o telnet.log)

\* APIAgent.upload_labels; connections are the clients entered, in order, and
\* log what was sent to the device.
upload_labels(labels, dev, tel, cb_raise_at) ==
    LET labels_to_upload == SelectSeq(labels, has_changes)
        upload_data == [i \in 1..Len(labels_to_upload) |-> UploadItem(labels_to_upload[i])]
        rest == rest_upload_labels_batch(dev, upload_data, cb_raise_at)
        \* the three locals once the REST attempt is over
        counts == IF rest.raised
                  THEN [success_count |-> 0, error_count |-> 0, error_messages |-> <<>>]
                  ELSE [success_count |-> rest.success_count,
                        error_count |-> rest.error_count,
                        error_messages |-> rest.error_messages]
        conn == telnet_connect(tel.connect)
        telnet == telnet_upload_labels_batch(tel.replies, upload_data, cb_raise_at)
    IN IF labels_to_upload = <<>> THEN UploadOutcome(0, 0, <<>>, <<>>, <<>>)
       ELSE IF ~rest.raised /\ rest.success_count > 0
       THEN UploadOutcome(rest.success_count, rest.error_count, rest.error_messages,
                          <<"rest">>, rest.log)
       ELSE IF conn.raised
       THEN UploadOutcome(counts.success_count, Len(labels_to_upload),
                          counts.error_messages
                              \o <<"Telnet upload failed: " \o tel.connect,
                                   "All upload methods failed">>,
                          <<"rest", "telnet">>, rest.log)
       ELSE IF telnet.raised
       THEN UploadOutcome(counts.success_count, Len(labels_to_upload),
                          counts.error_messages
                              \o <<"Telnet upload failed: callback",
                                   "All upload methods failed">>,
                          <<"rest", "telnet">>, rest.log \o telnet.log)
       ELSE UploadOutcome(telnet.success_count, telnet.error_count, telnet.error_messages,
                          <<"rest", "telnet">>, rest.log \o telnet.log)

-----------------------------------------------------------------------------
(* cli.py *)

\* RouterLabel: no validation and no cap on the port number.
RouterLabel(port_number, port_type, current_label, new_label) ==
    [port_number |-> port_number, port_type |-> port_type,
     current_label |-> current_label, new_label |-> new_label]

\* RouterLabel.has_changes
router_label_has_changes(label) ==
    label.new_label # NoneV /\ label.new_label # label.current_label

LowerCase == "abcdefghijklmnopqrstuvwxyz"
UpperCase == "ABCDEFGHIJKLMNOPQRSTUVWXYZ"

UpperChar(c) ==
    IF \E i \in 1..Len(LowerCase) : SubSeq(LowerCase, i, i) = c
    THEN LET i == CHOOSE j \in 1..Len(LowerCase) : SubSeq(LowerCase, j, j) = c
         IN SubSeq(UpperCase, i, i)
    ELSE c

\* str.upper()
RECURSIVE Upper(_)
Upper(text) == IF text = "" THEN "" ELSE UpperChar(Head(text)) \o Upper(Tail(text))

\* needle in text
Contains(text, needle) ==
    \E i \in 1..(Len(text) - Len(needle) + 1) : SubSeq(text, i, i + Len(needle) - 1) = needle

\* "\n".join(lines) + "\n"
RECURSIVE JoinLines(_)
JoinLines(lines) ==
    IF lines = <<>> THEN "" ELSE Head(lines) \o "\n" \o JoinLines(Tail(lines))

\* The Videohub as the upload meets it: how the connect and the drain of the
\* initial dump end and, per block, whether the block can be sent and what
\* comes back before the wait for the acknowledgement is over.
Videohub(connect, drain, acks) == [connect |-> connect, drain |-> drain, acks |-> acks]
BlockAck(kind, text) == [kind |-> kind, text |-> text]

\* send_block, were a block without acknowledgement taken as written
send_block_lenient(hub, block_name, port_labels) ==
    LET n == Len(port_labels)
        lines == <<block_name \o ":">>
                 \o [i \in 1..n |-> ToString(port_labels[i].port_number - 1) \o " "
                                      \o port_labels[i].new_label.s]
                 \o <<"">>
        payload == JoinLines(lines)
        sent == [i \in 1..n |->
                    [protocol |-> "videohub", method |-> block_name, target |-> payload,
                     port |-> port_labels[i].port_number, type |-> port_labels[i].port_type,
                     label |-> port_labels[i].new_label.s]]
        ack == hub.acks[block_name]
        ack_text == Upper(Strip(ack.text))
    IN CASE ack.kind = "send_error" ->
              [ok |-> 0, fail |-> n, log |-> <<>>,
               msgs |-> <<"Send error for " \o block_name>>]
         [] ack.kind = "lost" ->
              [ok |-> 0, fail |-> n, log |-> sent,
               msgs |-> <<block_name \o ": connection lost waiting for ACK">>]
         [] OTHER ->
              IF Contains(ack_text, "ACK")
              THEN [ok |-> n, fail |-> 0, log |-> sent, msgs |-> <<>>]
              ELSE IF Contains(ack_text, "NAK")
              THEN [ok |-> 0, fail |-> n, log |-> sent,
                    msgs |-> <<block_name \o ": device returned NAK (not acknowledged)">>]
              ELSE IF Strip(ack_text) = ""
              THEN [ok |-> n, fail |-> 0, log |-> sent,
                    msgs |-> <<block_name \o ": no response from device (timeout)">>]
              ELSE [ok |-> 0, fail |-> n, log |-> sent,
                    msgs |-> <<block_name \o ": ambiguous response from device: " \o ack_text>>]

\* send_block of upload_videohub_labels
send_block(hub, block_name, port_labels) ==
    LET n == Len(port_labels)
        lines == <<block_name \o ":">>
                 \o [i \in 1..n |-> ToString(port_labels[i].port_number - 1) \o " "
                                      \o port_labels[i].new_label.s]
                 \o <<"">>
        payload == JoinLines(lines)
        sent == [i \in 1..n |->
                    [protocol |-> "videohub", method |-> block_name, target |-> payload,
                     port |-> port_labels[i].port_number, type |-> port_labels[i].port_type,
                     label |-> port_labels[i].new_label.s]]
        ack == hub.acks[block_name]
        ack_text == Upper(Strip(ack.text))
    IN CASE ack.kind = "send_error" ->
              [ok |-> 0, fail |-> n, log |-> <<>>,
               msgs |-> <<"Send error for " \o block_name>>]
         [] ack.kind = "lost" ->
              [ok |-> 0, fail |-> n, log |-> sent,
               msgs |-> <<block_name \o ": connection lost waiting for ACK">>]
         [] OTHER ->
              IF Contains(ack_text, "ACK")
              THEN [ok |-> n, fail |-> 0, log |-> sent, msgs |-> <<>>]
              ELSE IF Contains(ack_text, "NAK")
              THEN [ok |-> 0, fail |-> n, log |-> sent,
                    msgs |-> <<block_name \o ": device returned NAK (not acknowledged)">>]
              ELSE IF Strip(ack_text) = ""
              THEN [ok |-> 0, fail |-> n, log |-> sent,
                    msgs |-> <<block_name \o ": no response from device (timeout)">>]
              ELSE [ok |-> 0, fail |-> n, log |-> sent,
                    msgs |-> <<block_name \o ": ambiguous response from device: " \o ack_text>>]

NoBlock == [ok |-> 0, fail |-> 0, log |-> <<>>, msgs |-> <<>>]
IsInput(label) == label.port_type = "INPUT"
IsOutput(label) == label.port_type = "OUTPUT"

\* upload_videohub_labels, were the output block given up after a failed
\* input block
upload_videohub_labels_abort(labels, hub) ==
    LET changes == SelectSeq(labels, router_label_has_changes)
        inputs_to_send == SelectSeq(changes, IsInput)
        outputs_to_send == SelectSeq(changes, IsOutput)
        ins == IF inputs_to_send # <<>>
               THEN send_block(hub, "INPUT LABELS", inputs_to_send) ELSE NoBlock
        outs == IF outputs_to_send # <<>> /\ ins.fail = 0
                THEN send_block(hub, "OUTPUT LABELS", outputs_to_send)
                ELSE [NoBlock EXCEPT !.fail = Len(outputs_to_send)]
    IN IF changes = <<>> THEN UploadOutcome(0, 0, <<>>, <<>>, <<>>)
       ELSE IF hub.connect # "ok"
       THEN UploadOutcome(0, Len(changes), <<"Cannot connect: " \o hub.connect>>,
                          <<"videohub">>, <<>>)
       ELSE IF hub.drain # "ok"
       THEN UploadOutcome(0, Len(changes), <<"Socket error draining initial state dump">>,
                          <<"videohub">>, <<>>)
       ELSE UploadOutcome(ins.ok + outs.ok, ins.fail + outs.fail, ins.msgs \o outs.msgs,
                          <<"videohub">>, ins.log \o outs.log)

\* upload_videohub_labels
upload_videohub_labels(labels, hub) ==
    LET changes == SelectSeq(labels, router_label_has_changes)
        inputs_to_send == SelectSeq(changes, IsInput)
        outputs_to_send == SelectSeq(changes, IsOutput)
        ins == IF inputs_to_send # <<>>
               THEN send_block(hub, "INPUT LABELS", inputs_to_send) ELSE NoBlock
        outs == IF outputs_to_send # <<>>
                THEN send_block(hub, "OUTPUT LABELS", outputs_to_send) ELSE NoBlock
    IN IF changes = <<>> THEN UploadOutcome(0, 0, <<>>, <<>>, <<>>)
       ELSE IF hub.connect # "ok"
       THEN UploadOutcome(0, Len(changes), <<"Cannot connect: " \o hub.connect>>,
                          <<"videohub">>, <<>>)
       ELSE IF hub.drain # "ok"
       THEN UploadOutcome(0, Len(changes), <<"Socket error draining initial state dump">>,
                          <<"videohub">>, <<>>)
       ELSE UploadOutcome(ins.ok + outs.ok, ins.fail + outs.fail, ins.msgs \o outs.msgs,
                          <<"videohub">>, ins.log \o outs.log)

VIDEOHUB_MAX_LABEL_LENGTH == 255
LIGHTWARE_MAX_LABEL_LENGTH == 255

\* text[:n]
Take(text, n) == SubSeq(text, 1, IF n < Len(text) THEN n ELSE Len(text))

\* line.startswith(prefix)
StartsWith(line, prefix) ==
    Len(line) >= Len(prefix) /\ SubSeq(line, 1, Len(prefix)) = prefix

Max(S) == CHOOSE x \in S : \A y \in S : y <= x

\* str.rstrip()
RStrip(text) ==
    IF \A i \in 1..Len(text) : SubSeq(text, i, i) \in Whitespace THEN ""
    ELSE SubSeq(text, 1, Max({i \in 1..Len(text) : SubSeq(text, i, i) \notin Whitespace}))

\* line.endswith(suffix)
EndsWith(line, suffix) ==
    Len(line) >= Len(suffix)
    /\ SubSeq(line, Len(line) - Len(suffix) + 1, Len(line)) = suffix

DigitChars == "0123456789"
IsDigit(c) == \E i \in 1..10 : SubSeq(DigitChars, i, i) = c
DigitValue(c) == (CHOOSE i \in 1..10 : SubSeq(DigitChars, i, i) = c) - 1

\* The value of a run of decimal digits, underscores skipped.
RECURSIVE DigitsValue(_)
DigitsValue(digits) ==
    IF digits = "" THEN 0
    ELSE IF SubSeq(digits, Len(digits), Len(digits)) = "_"
         THEN DigitsValue(SubSeq(digits, 1, Len(digits) - 1))
         ELSE 10 * DigitsValue(SubSeq(digits, 1, Len(digits) - 1))
              + DigitValue(SubSeq(digits, Len(digits), Len(digits)))

\* int(text): surrounding whitespace is dropped, one sign is accepted, then
\* decimal digits with single underscores between them; ok is FALSE where
\* int raises ValueError.
ParseInt(text) ==
    LET t == Strip(text)
        signed == t # "" /\ SubSeq(t, 1, 1) \in {"+", "-"}
        digits == IF signed THEN SubSeq(t, 2, Len(t)) ELSE t
        n == Len(digits)
        wellformed ==
            /\ n > 0
            /\ \A i \in 1..n : IsDigit(SubSeq(digits, i, i)) \/ SubSeq(digits, i, i) = "_"
            /\ IsDigit(SubSeq(digits, 1, 1)) /\ IsDigit(SubSeq(digits, n, n))
            /\ \A i \in 1..(n - 1) : SubSeq(digits, i, i + 1) # "__"
    IN IF wellformed
       THEN [ok |-> TRUE,
             n |-> IF SubSeq(t, 1, 1) = "-" THEN 0 - DigitsValue(digits)
                   ELSE DigitsValue(digits)]
       ELSE [ok |-> FALSE, n |-> 0]

\* The positions where a line of raw ends: "\n" (alone or closing "\r\n") and
\* a "\r" that no "\n" follows.
LineEnds(raw) ==
    {i \in 1..Len(raw) :
        \/ SubSeq(raw, i, i) = "\n"
        \/ SubSeq(raw, i, i) = "\r" /\ (i = Len(raw) \/ SubSeq(raw, i + 1, i + 1) # "\n")}

\* The line of raw that ends at position e, without its line break.
LineBefore(raw, ends, e) ==
    LET start == 1 + Max({0} \cup {x \in ends : x < e})
    IN SubSeq(raw, start,
              IF SubSeq(raw, e, e) = "\n" /\ e > start /\ SubSeq(raw, e - 1, e - 1) = "\r"
              THEN e - 2 ELSE e - 1)

\* raw.splitlines(), for text whose line breaks are "\n", "\r\n" and "\r"
SplitLines(raw) ==
    LET ends == LineEnds(raw)
        nth(j) == CHOOSE e \in ends : Cardinality({x \in ends : x <= e}) = j
        rest == 1 + Max({0} \cup ends)
    IN [j \in 1..Cardinality(ends) |-> LineBefore(raw, ends, nth(j))]
       \o (IF rest <= Len(raw) THEN <<SubSeq(raw, rest, Len(raw))>> ELSE <<>>)

\* VideohubInfo() (lines 80-89)
VideohubInfo ==
    [model_name |-> "Blackmagic Videohub", friendly_name |-> "",
     protocol_version |-> "Unknown", video_inputs |-> 0, video_outputs |-> 0,
     input_labels |-> <<>>, output_labels |-> <<>>]

\* blocks[name] = lines
PutBlock(blocks, name, lines) ==
    [x \in DOMAIN blocks \cup {name} |-> IF x = name THEN lines ELSE blocks[x]]

\* lines 152-153: a block header ends with a colon and starts with neither a
\* blank nor a digit.
IsBlockHeader(stripped) ==
    EndsWith(stripped, ":") /\ ~StartsWith(stripped, " ") /\ ~IsDigit(SubSeq(stripped, 1, 1))

\* blocks after `if current_block is not None: blocks[current_block] = ...`
FlushBlock(blocks, current_block, current_lines) ==
    IF current_block # NoneV THEN PutBlock(blocks, current_block.s, current_lines)
    ELSE blocks

\* lines 150-171: the loop over the lines from line i on, then the flush of
\* the trailing block.
RECURSIVE SplitBlocks(_, _, _, _, _)
SplitBlocks(lines, i, blocks, current_block, current_lines) ==
    IF i > Len(lines) THEN FlushBlock(blocks, current_block, current_lines)
    ELSE IF IsBlockHeader(RStrip(lines[i]))
    THEN SplitBlocks(lines, i + 1, FlushBlock(blocks, current_block, current_lines),
                     Str(SubSeq(RStrip(lines[i]), 1, Len(RStrip(lines[i])) - 1)), <<>>)
    ELSE IF RStrip(lines[i]) = ""
    THEN SplitBlocks(lines, i + 1, FlushBlock(blocks, current_block, current_lines),
                     NoneV, <<>>)
    ELSE SplitBlocks(lines, i + 1, blocks, current_block,
                     IF current_block # NoneV THEN Append(current_lines, RStrip(lines[i]))
                     ELSE current_lines)

\* blocks[name] when `name in blocks`, no entries otherwise
BlockEntries(blocks, name) == IF name \in DOMAIN blocks THEN blocks[name] ELSE <<>>

\* entry.split(":", 1)[1].strip()
AfterColon(entry) ==
    Strip(SubSeq(entry, 1 + Min({i \in 1..Len(entry) : SubSeq(entry, i, i) = ":"}),
                 Len(entry)))

\* lines 174-177 and 180-195: one entry of PROTOCOL PREAMBLE / VIDEOHUB DEVICE
PreambleEntry(info, entry) ==
    IF StartsWith(entry, "Version:")
    THEN [info EXCEPT !.protocol_version = AfterColon(entry)] ELSE info

DeviceEntry(info, entry) ==
    CASE StartsWith(entry, "Model name:") -> [info EXCEPT !.model_name = AfterColon(entry)]
      [] StartsWith(entry, "Friendly name:") ->
           [info EXCEPT !.friendly_name = AfterColon(entry)]
      [] StartsWith(entry, "Video inputs:") ->
           IF ParseInt(AfterColon(entry)).ok
           THEN [info EXCEPT !.video_inputs = ParseInt(AfterColon(entry)).n] ELSE info
      [] StartsWith(entry, "Video outputs:") ->
           IF ParseInt(AfterColon(entry)).ok
           THEN [info EXCEPT !.video_outputs = ParseInt(AfterColon(entry)).n] ELSE info
      [] OTHER -> info

RECURSIVE ParseEntries(_, _, _, _)
ParseEntries(block, entries, i, info) ==
    IF i > Len(entries) THEN info
    ELSE ParseEntries(block, entries, i + 1,
                      IF block = "PROTOCOL PREAMBLE" THEN PreambleEntry(info, entries[i])
                      ELSE DeviceEntry(info, entries[i]))

\* [f"Input {i+1}" for i in range(count)] when count > 0, [] otherwise
DefaultNames(prefix, count) ==
    IF count > 0 THEN [i \in 1..count |-> prefix \o " " \o ToString(i)] ELSE <<>>

\* lines 210-214: the list is grown with defaults while len(labels) <= idx,
\* then labels[idx] = label_text.  A negative idx addresses the list from its
\* end and raises IndexError (entry skipped) when the list is shorter.
StoreLabel(labels, prefix, idx, label_text) ==
    IF idx >= 0
    THEN [i \in 1..Max({Len(labels), idx + 1}) |->
             IF i = idx + 1 THEN label_text
             ELSE IF i <= Len(labels) THEN labels[i]
             ELSE prefix \o " " \o ToString(i)]
    ELSE IF 0 - idx <= Len(labels) THEN [labels EXCEPT ![Len(labels) + idx + 1] = label_text]
    ELSE labels

\* entry.split(" ", 1): the text before the first blank and the text after it
IndexPart(entry) ==
    IF \E k \in 1..Len(entry) : SubSeq(entry, k, k) = " "
    THEN SubSeq(entry, 1, Min({k \in 1..Len(entry) : SubSeq(entry, k, k) = " "}) - 1)
    ELSE entry

LabelPart(entry) ==
    IF \E k \in 1..Len(entry) : SubSeq(entry, k, k) = " "
    THEN SubSeq(entry, 1 + Min({k \in 1..Len(entry) : SubSeq(entry, k, k) = " "}),
                Len(entry))
    ELSE ""

\* lines 202-216 / 221-232: the loop over the entries of a label block
RECURSIVE ParseLabelEntries(_, _, _, _)
ParseLabelEntries(entries, i, labels, prefix) ==
    IF i > Len(entries) THEN labels
    ELSE ParseLabelEntries(entries, i + 1,
                           IF ParseInt(IndexPart(entries[i])).ok
                           THEN StoreLabel(labels, prefix, ParseInt(IndexPart(entries[i])).n,
                                           LabelPart(entries[i]))
                           ELSE labels,
                           prefix)

\* lines 197-233, given the blocks and the info the device block came to
DumpLabels(blocks, info) ==
    [info EXCEPT
        !.input_labels =
            ParseLabelEntries(BlockEntries(blocks, "INPUT LABELS"), 1,
                              DefaultNames("Input", info.video_inputs), "Input"),
        !.output_labels =
            ParseLabelEntries(BlockEntries(blocks, "OUTPUT LABELS"), 1,
                              DefaultNames("Output", info.video_outputs), "Output")]

\* lines 173-195
DumpInfo(blocks) ==
    DumpLabels(blocks,
               ParseEntries("VIDEOHUB DEVICE", BlockEntries(blocks, "VIDEOHUB DEVICE"), 1,
                   ParseEntries("PROTOCOL PREAMBLE",
                                BlockEntries(blocks, "PROTOCOL PREAMBLE"), 1, VideohubInfo)))

\* _parse_videohub_dump
parse_videohub_dump(raw) == DumpInfo(SplitBlocks(SplitLines(raw), 1, <<>>, NoneV, <<>>))

\* The Lightware device as one SET meets it: how the connect ends and what
\* _lw3_send_command comes to (the lines of the response block, or an
\* exception).
Lightware(connect, reply) == [connect |-> connect, reply |-> reply]
Lw3Reply(kind, lines) == [kind |-> kind, lines |-> lines]

\* upload_lightware_label, were the first line alone looked at
upload_lightware_label_first(dev, port_type, port_num, label) ==
    LET type_char == IF port_type = "INPUT" THEN "I" ELSE "O"
        label_text == Take(label, LIGHTWARE_MAX_LABEL_LENGTH)
        path == "/MEDIA/NAMES/VIDEO." \o type_char \o ToString(port_num) \o "="
                \o ToString(port_num) \o ";" \o label_text
        command == "SET " \o path
        sent == <<[protocol |-> "lw3", method |-> "SET", target |-> command,
                   port |-> port_num, type |-> port_type, label |-> label_text]>>
        errors == {i \in {k \in {1} : k <= Len(dev.reply.lines)} :
                     \/ StartsWith(dev.reply.lines[i], "pE")
                     \/ StartsWith(dev.reply.lines[i], "nE")
                     \/ StartsWith(dev.reply.lines[i], "-E")}
    IN IF dev.connect # "ok" THEN [ok |-> FALSE, log |-> <<>>]
       ELSE IF dev.reply.kind = "raise" THEN [ok |-> FALSE, log |-> sent]
       ELSE [ok |-> errors = {} /\ dev.reply.lines # <<>>, log |-> sent]

\* upload_lightware_label; log is what was written to the socket.
upload_lightware_label(dev, port_type, port_num, label) ==
    LET type_char == IF port_type = "INPUT" THEN "I" ELSE "O"
        label_text == Take(label, LIGHTWARE_MAX_LABEL_LENGTH)
        path == "/MEDIA/NAMES/VIDEO." \o type_char \o ToString(port_num) \o "="
                \o ToString(port_num) \o ";" \o label_text
        command == "SET " \o path
        sent == <<[protocol |-> "lw3", method |-> "SET", target |-> command,
                   port |-> port_num, type |-> port_type, label |-> label_text]>>
        errors == {i \in 1..Len(dev.reply.lines) :
                     \/ StartsWith(dev.reply.lines[i], "pE")
                     \/ StartsWith(dev.reply.lines[i], "nE")
                     \/ StartsWith(dev.reply.lines[i], "-E")}
    IN IF dev.connect # "ok" THEN [ok |-> FALSE, log |-> <<>>]
       ELSE IF dev.reply.kind = "raise" THEN [ok |-> FALSE, log |-> sent]
       ELSE [ok |-> errors = {} /\ dev.reply.lines # <<>>, log |-> sent]

\* f"{req_id:04d}"
ZeroPad4(req_id) ==
    (CASE req_id < 10 -> "000" [] req_id < 100 -> "00" [] req_id < 1000 -> "0" [] OTHER -> "")
    \o ToString(req_id)

\* framed = f"{req_id:04d}#{command}\r\n"
Lw3Frame(req_id, command) == ZeroPad4(req_id) \o "#" \o command \o "\r\n"

\* text.rstrip("\r")
RStripCR(text) ==
    IF \A i \in 1..Len(text) : SubSeq(text, i, i) = "\r" THEN ""
    ELSE SubSeq(text, 1, Max({i \in 1..Len(text) : SubSeq(text, i, i) # "\r"}))

\* The complete lines of the bytes received, each without its "\n" and its
\* trailing "\r"; what follows the last "\n" stays in buf and is never read.
Lw3Lines(data) ==
    LET ends == {i \in 1..Len(data) : SubSeq(data, i, i) = "\n"}
        nth(j) == CHOOSE e \in ends : Cardinality({x \in ends : x <= e}) = j
    IN [j \in 1..Cardinality(ends) |->
           RStripCR(SubSeq(data, 1 + Max({0} \cup {x \in ends : x < nth(j)}), nth(j) - 1))]

\* The read, were the block of any request taken for the block of this one
RECURSIVE Lw3ReadAnyBlock(_, _, _, _, _)
Lw3ReadAnyBlock(texts, i, expected_open, in_block, lines) ==
    IF i > Len(texts) THEN lines
    ELSE IF ~in_block
    THEN Lw3ReadAnyBlock(texts, i + 1, expected_open, StartsWith(texts[i], "{"), lines)
    ELSE IF Strip(texts[i]) = "}" THEN lines
    ELSE Lw3ReadAnyBlock(texts, i + 1, expected_open, TRUE, Append(lines, texts[i]))

\* lines 484-511: the lines from line i on are taken one by one; lines before
\* the opening line of the request are dropped, the closing line ends the
\* read, and when the lines run out the read ends by timeout, close or
\* deadline with what was collected.
RECURSIVE Lw3ReadFrom(_, _, _, _, _)
Lw3ReadFrom(texts, i, expected_open, in_block, lines) ==
    IF i > Len(texts) THEN lines
    ELSE IF ~in_block
    THEN Lw3ReadFrom(texts, i + 1, expected_open, StartsWith(texts[i], expected_open), lines)
    ELSE IF Strip(texts[i]) = "}" THEN lines
    ELSE Lw3ReadFrom(texts, i + 1, expected_open, TRUE, Append(lines, texts[i]))

\* What one command meets on the socket: how sendall(framed.encode("ascii"))
\* ends (sent, OSError, or UnicodeEncodeError for a command outside ASCII)
\* and the bytes received until the read ends.
Lw3Wire(send, data) == [send |-> send, data |-> data]

\* _lw3_send_command(sock, command, send_id) with send_id[0] = req_id; the
\* caller's counter is req_id + 1 afterwards on every path.
lw3_send_command(wire, command, req_id) ==
    CASE wire.send = "raise" ->
           [kind |-> "raise", lines |-> <<>>, framed |-> Lw3Frame(req_id, command)]
      [] wire.send = "oserror" ->
           [kind |-> "lines", lines |-> <<>>, framed |-> Lw3Frame(req_id, command)]
      [] OTHER ->
           [kind |-> "lines",
            lines |-> Lw3ReadFrom(Lw3Lines(wire.data), 1, "{" \o ZeroPad4(req_id), FALSE, <<>>),
            framed |-> Lw3Frame(req_id, command)]

\* LightwareInfo() (lines 93-100)
LightwareInfo ==
    [product_name |-> "Lightware MX2", input_count |-> 0, output_count |-> 0,
     input_labels |-> <<>>, output_labels |-> <<>>]

\* The commands of connect_lightware, in the order they are issued.
ConnectCommands ==
    <<"GET /.ProductName", "GET /MEDIA/XP/VIDEO.SourcePortCount",
      "GET /MEDIA/XP/VIDEO.DestinationPortCount", "GET /MEDIA/NAMES/VIDEO.*">>

\* The lines that contain "="
WithEquals(lines) == {i \in 1..Len(lines) : Contains(lines[i], "=")}

\* line.split("=", 1)[1].strip()
AfterEquals(line) ==
    Strip(SubSeq(line, 1 + Min({i \in 1..Len(line) : SubSeq(line, i, i) = "="}), Len(line)))

\* lines 543-547: the value of the first line with "=", the default otherwise
ProductNameOf(lines, default) ==
    IF WithEquals(lines) = {} THEN default ELSE AfterEquals(lines[Min(WithEquals(lines))])

\* lines 551-566: int of the value of the first line with "=", the default
\* when there is no such line or int raises ValueError
PortCountOf(lines, default) ==
    IF WithEquals(lines) # {} /\ ParseInt(AfterEquals(lines[Min(WithEquals(lines))])).ok
    THEN ParseInt(AfterEquals(lines[Min(WithEquals(lines))])).n
    ELSE default

\* The last position of the run of digits that starts at position p of line
\* (p - 1 when there is none).
DigitRunEnd(line, p) ==
    Max({p - 1} \cup {q \in p..Len(line) : \A r \in p..q : IsDigit(SubSeq(line, r, r))})

\* prefix(\d+)=\d+;(.*) matches line at position p
LabelMatchAt(line, prefix, p) ==
    /\ p + Len(prefix) - 1 <= Len(line)
    /\ SubSeq(line, p, p + Len(prefix) - 1) = prefix
    /\ DigitRunEnd(line, p + Len(prefix)) >= p + Len(prefix)
    /\ DigitRunEnd(line, p + Len(prefix)) + 1 <= Len(line)
    /\ SubSeq(line, DigitRunEnd(line, p + Len(prefix)) + 1,
              DigitRunEnd(line, p + Len(prefix)) + 1) = "="
    /\ DigitRunEnd(line, DigitRunEnd(line, p + Len(prefix)) + 2)
         >= DigitRunEnd(line, p + Len(prefix)) + 2
    /\ DigitRunEnd(line, DigitRunEnd(line, p + Len(prefix)) + 2) + 1 <= Len(line)
    /\ SubSeq(line, DigitRunEnd(line, DigitRunEnd(line, p + Len(prefix)) + 2) + 1,
              DigitRunEnd(line, DigitRunEnd(line, p + Len(prefix)) + 2) + 1) = ";"

\* input_re.search(line) / output_re.search(line): the leftmost match
LabelSearch(line, prefix) ==
    IF \E p \in 1..Len(line) : LabelMatchAt(line, prefix, p)
    THEN LET p == Min({q \in 1..Len(line) : LabelMatchAt(line, prefix, q)})
             e1 == DigitRunEnd(line, p + Len(prefix))
         IN [matched |-> TRUE,
             port_num |-> DigitsValue(SubSeq(line, p + Len(prefix), e1)),
             text |-> SubSeq(line, DigitRunEnd(line, e1 + 2) + 2, Len(line))]
    ELSE [matched |-> FALSE, port_num |-> 0, text |-> ""]

\* lines 576-584: one line of the wildcard reply
LabelLine(info, line) ==
    IF LabelSearch(line, "/MEDIA/NAMES/VIDEO.I").matched
    THEN [info EXCEPT !.input_labels =
             PutBlock(@, LabelSearch(line, "/MEDIA/NAMES/VIDEO.I").port_num,
                      LabelSearch(line, "/MEDIA/NAMES/VIDEO.I").text)]
    ELSE IF LabelSearch(line, "/MEDIA/NAMES/VIDEO.O").matched
    THEN [info EXCEPT !.output_labels =
             PutBlock(@, LabelSearch(line, "/MEDIA/NAMES/VIDEO.O").port_num,
                      LabelSearch(line, "/MEDIA/NAMES/VIDEO.O").text)]
    ELSE info

RECURSIVE LabelLinesFrom(_, _, _)
LabelLinesFrom(lines, i, info) ==
    IF i > Len(lines) THEN info
    ELSE LabelLinesFrom(lines, i + 1, LabelLine(info, lines[i]))

\* labels.setdefault(i, f"{prefix} {i}") for i in range(1, count + 1)
SeedDefaults(labels, prefix, count) ==
    [i \in DOMAIN labels \cup 1..count |->
        IF i \in DOMAIN labels THEN labels[i] ELSE prefix \o " " \o ToString(i)]

\* lines 586-590
SeededInfo(info) ==
    [info EXCEPT !.input_labels = SeedDefaults(@, "Input", info.input_count),
                 !.output_labels = SeedDefaults(@, "Output", info.output_count)]

\* connect_lightware after the connection was opened, given what the four
\* calls of _lw3_send_command came to: (success, info)
connect_lightware(replies) ==
    IF \E k \in 1..Len(replies) : replies[k].kind = "raise"
    THEN [ok |-> FALSE, info |-> NoneV]
    ELSE [ok |-> TRUE,
          info |-> SeededInfo(LabelLinesFrom(replies[4].lines, 1,
                      [LightwareInfo EXCEPT
                          !.product_name = ProductNameOf(replies[1].lines, @),
                          !.input_count = PortCountOf(replies[2].lines, @),
                          !.output_count = PortCountOf(replies[3].lines, @)]))]

LIGHTWARE_PORT == 6107
VIDEOHUB_PORT == 9990

\* lines 397-408: the chunks are added to response one by one until response
\* holds "}" or the chunks run out; then the read ends as `ending` says
\* (a timeout or the deadline, an empty chunk, or an OSError of recv, which
\* the loop does not catch).
RECURSIVE ProbeRead(_, _, _, _)
ProbeRead(chunks, i, ending, response) ==
    IF i > Len(chunks)
    THEN [response |-> response, raised |-> ending = "oserror"]
    ELSE IF Contains(response \o chunks[i], "}")
    THEN [response |-> response \o chunks[i], raised |-> FALSE]
    ELSE ProbeRead(chunks, i + 1, ending, response \o chunks[i])

\* lines 388-417: the Lightware probe finds the marker
LightwareProbe(lw) ==
    /\ lw.connect = "ok" /\ lw.send = "ok"
    /\ ~ProbeRead(lw.chunks, 1, lw.ending, "").raised
    /\ Contains(ProbeRead(lw.chunks, 1, lw.ending, "").response, "ProductName")

\* lines 419-436: the Videohub probe finds the marker in the first line
VideohubProbe(vh) ==
    vh.connect = "ok" /\ vh.readline = "ok" /\ Contains(vh.first_line, "PROTOCOL PREAMBLE")

\* detect_router_type(ip), with the ports it connected to, in order
detect_router_type(target) ==
    IF LightwareProbe(target.lw)
    THEN [type |-> "lightware", probed |-> <<LIGHTWARE_PORT>>]
    ELSE [type |-> IF VideohubProbe(target.vh) THEN "videohub" ELSE "kumo",
          probed |-> <<LIGHTWARE_PORT, VIDEOHUB_PORT>>]

-----------------------------------------------------------------------------
(* The devices a download can meet *)

\* Leading attempts of a request that can be lost.
MaxGlitch == 1

LongText == Repeat("x", MAX_LABEL_LENGTH + 1)

\* One entry of a bulk configuration document.
BulkItemKinds == {"str", "obj", "obj_nolabel", "obj_numlabel", "num", "null", "long"}
BulkItem(kind, i) ==
    CASE kind = "str" -> Str("Cam " \o ToString(i))
      [] kind = "obj" -> Dict([label |-> Str("Src " \o ToString(i))])
      [] kind = "obj_nolabel" -> Dict([name |-> Str("Src " \o ToString(i))])
      [] kind = "obj_numlabel" -> Dict([label |-> Num(i)])
      [] kind = "num" -> Num(i)
      [] kind = "null" -> NoneV
      [] OTHER -> Str(LongText)

BulkShapes == {"both", "inputs", "outputs"}
BulkLengths == {0, 2, BULK_PORTS + 1}
BulkBody(shape, kind, len) ==
    LET items == List([i \in 1..len |-> BulkItem(kind, i)]) IN
    CASE shape = "both" -> Dict([inputs |-> items, outputs |-> items])
      [] shape = "inputs" -> Dict([inputs |-> items])
      [] OTHER -> Dict([outputs |-> items])

\* Bulk endpoints that answer with a configuration document.
BulkGets ==
    {bulk_endpoints[1] :> HttpJson(BulkBody(shape, kind, len)) :
        shape \in BulkShapes, kind \in BulkItemKinds, len \in BulkLengths}
    \cup {bulk_endpoints[e] :> HttpJson(BulkBody("both", "str", 2)) :
            e \in 2..Len(bulk_endpoints)}

\* Bulk endpoints that answer 200 with nothing a configuration can be read from.
MalformedBulk ==
    bulk_endpoints[1] :> HttpText("<html></html>")
    @@ bulk_endpoints[2] :> HttpJson(Dict(<<>>))
    @@ bulk_endpoints[3] :> HttpJson(Dict([status |-> Str("ok")]))
    @@ bulk_endpoints[4] :> HttpJson(Dict([inputs |-> Num(5)]))
    @@ bulk_endpoints[5] :> HttpJson(List(<<Str("Cam 1")>>))

AllPorts == PortTypes \X (1..REST_PORTS)
AnsweredPorts ==
    {AllPorts, {<<"INPUT", 1>>}, {<<"OUTPUT", REST_PORTS>>},
     {<<"INPUT", 2>>, <<"OUTPUT", 1>>}}

\* What an individual port endpoint answers with.
PortReplyKinds == {"obj", "text", "obj_num", "obj_null", "long"}
EmptyPortReplyKinds == {"obj_empty", "obj_nolabel", "blank"}
PortReply(kind, port_type, port) ==
    CASE kind = "obj" -> HttpJson(Dict([label |-> Str("Src " \o port_type \o ToString(port))]))
      [] kind = "text" -> HttpText("  Txt " \o port_type \o ToString(port) \o "\n")
      [] kind = "obj_num" -> HttpJson(Dict([label |-> Num(port)]))
      [] kind = "obj_null" -> HttpJson(Dict([label |-> NoneV]))
      [] kind = "long" -> HttpJson(Dict([label |-> Str(LongText)]))
      [] kind = "obj_empty" -> HttpJson(Dict([label |-> Str("")]))
      [] kind = "obj_nolabel" -> HttpJson(Dict([name |-> Str("x")]))
      [] OTHER -> HttpText("  \n")

\* The ports in answered answer with kind at endpoint number way.
PortGets(answered, way, kind) ==
    [endpoint \in {individual_endpoints(x[1], x[2])[way] : x \in answered} |->
        LET x == CHOOSE y \in answered : individual_endpoints(y[1], y[2])[way] = endpoint
        IN PortReply(kind, x[1], x[2])]

IndividualGets ==
    {PortGets(answered, 1, kind) : answered \in AnsweredPorts, kind \in PortReplyKinds}
    \cup {PortGets(AllPorts, 2, kind) : kind \in PortReplyKinds}
    \cup {PortGets(AllPorts, 1, kind) : kind \in EmptyPortReplyKinds}
    \cup {<<>>}

\* The REST side of a download: a bulk endpoint answers, at once or after lost
\* attempts; nothing answers; port endpoints answer; the bulk endpoints answer
\* with no configuration and the port endpoints answer or not.
DownloadDevices ==
    {Device("http_error", 0, get, {}, {}) : get \in BulkGets}
    \cup {Device("http_error", glitch, bulk_endpoints[e] :> HttpJson(BulkBody("both", "str", 2)),
                 {}, {}) : glitch \in 1..MaxGlitch, e \in {1, Len(bulk_endpoints)}}
    \cup {Device(mode, 0, <<>>, {}, {}) : mode \in FailModes}
    \cup {Device("http_error", 0, get, {}, {}) : get \in IndividualGets \ {<<>>}}
    \cup {Device("http_error", glitch, PortGets(AllPorts, 1, "obj"), {}, {}) :
            glitch \in 1..MaxGlitch}
    \cup {Device("http_error", 0, MalformedBulk @@ get, {}, {}) :
            get \in {<<>>, PortGets(AllPorts, 1, "obj")}}

\* What the Telnet device does with the query for one port.
TelnetBehaviours == {"quoted", "bare", "empty_quotes", "long", "silent", "eof", "late"}
TelnetLabelText(port_type, port) == "Tel " \o port_type \o ToString(port)
TelnetAnswer(kind, port_type, port) ==
    CASE kind = "quoted" ->
           TelnetReply("reply", Quote \o TelnetLabelText(port_type, port) \o Quote \o "\r\n")
      [] kind = "late" ->
           TelnetReply("late", Quote \o TelnetLabelText(port_type, port) \o Quote \o "\r\n")
      [] kind = "bare" -> TelnetReply("reply", "OK\r\n")
      [] kind = "empty_quotes" -> TelnetReply("reply", Quote \o Quote \o "\r\n")
      [] kind = "long" -> TelnetReply("reply", Quote \o LongText \o Quote \o "\r\n")
      [] kind = "eof" -> TelnetReply("eof", "")
      [] OTHER -> TelnetReply("silent", "")

\* The replies to the 2 * port_count queries: kind `other` for the queries in
\* `odd`, kind `base` for the rest.
QueryReplies(base, odd, other) ==
    [c \in 1..(2 * TELNET_PORT_COUNT) |->
        TelnetAnswer(IF c \in odd THEN other ELSE base,
                     IF c <= TELNET_PORT_COUNT THEN "INPUT" ELSE "OUTPUT",
                     IF c <= TELNET_PORT_COUNT THEN c ELSE c - TELNET_PORT_COUNT)]

OddQueries == {{1}, {2 * TELNET_PORT_COUNT}}

DownloadPeers ==
    {TelnetPeer(outcome, <<>>) : outcome \in TelnetConnectOutcomes \ {"ok"}}
    \cup {TelnetPeer("ok", QueryReplies(base, {}, base)) :
            base \in TelnetBehaviours \ {"long"}}
    \cup {TelnetPeer("ok", QueryReplies("quoted", odd, other)) :
            odd \in OddQueries, other \in {"silent", "late", "bare", "long"}}
    \cup {TelnetPeer("ok", QueryReplies("silent", odd, "quoted")) : odd \in OddQueries}

-----------------------------------------------------------------------------
(* The label lists an upload can be given, and the devices it can meet *)

\* Labels submitted to one upload on a device that is observed in full.
MaxSubmit == 3
\* Labels submitted to an upload in the life of an agent.
MaxSubmitAgent == 1

\* A label with a new text, with an empty new text, with the new text equal
\* to the current one, and with no new text.
LabelShapes == {"changed", "cleared", "same", "unset"}
ShapedLabel(i, shape) ==
    LET current == Str("Cam " \o ToString(i)) IN
    Label((i + 1) \div 2, IF i % 2 = 1 THEN "INPUT" ELSE "OUTPUT", current,
          CASE shape = "changed" -> Str("New " \o ToString(i))
            [] shape = "cleared" -> Str("")
            [] shape = "same" -> current
            [] OTHER -> NoneV)

Submissions(n) ==
    UNION {{[i \in 1..m |-> ShapedLabel(i, f[i])] : f \in [1..m -> LabelShapes]} : m \in 0..n}

\* The REST device that accepts the items numbered in accepted, by PUT or by
\* the CGI endpoint, and no other.
UploadDevice(items, accepted, way, glitch) ==
    Device("http_error", glitch, <<>>,
           IF way = "put"
           THEN {update_endpoint(items[i].type, items[i].port) : i \in accepted} ELSE {},
           IF way = "cgi"
           THEN {<<items[i].type, items[i].port>> : i \in accepted} ELSE {})

\* The Telnet peers of an upload of k items.
UploadPeers(k) ==
    {TelnetPeer(outcome, <<>>) : outcome \in TelnetConnectOutcomes \ {"ok"}}
    \cup {TelnetPeer("ok", [i \in 1..k |-> IF i \in answered
                                            THEN TelnetReply("reply", "OK\r\n")
                                            ELSE TelnetReply("silent", "")]) :
            answered \in SUBSET (1..k)}
    \cup {TelnetPeer("ok", [i \in 1..k |-> TelnetReply("eof", "")]),
          TelnetPeer("ok", [i \in 1..k |-> IF i = 1 THEN TelnetReply("late", "OK\r\n")
                                            ELSE TelnetReply("reply", "OK\r\n")])}

\* The peer that answers every one of k commands.
AnsweringPeer(k) == TelnetPeer("ok", [i \in 1..k |-> TelnetReply("reply", "OK\r\n")])

\* Whether the REST attempt of upload_labels hands over to Telnet.
RestHandsOver(dev, items, cb_raise_at) ==
    LET r == rest_upload_labels_batch(dev, items, cb_raise_at)
    IN r.raised \/ r.success_count = 0

UploadInput(labels, dev, tel, cb_raise_at) ==
    [labels |-> labels, dev |-> dev, tel |-> tel, cb_raise_at |-> cb_raise_at]

\* The inputs of upload_labels for one list: every way the REST device can
\* treat the changed items and, where Telnet is reached, every Telnet peer.
InputsFor(labels) ==
    LET changed == SelectSeq(labels, has_changes)
        items == [i \in 1..Len(changed) |-> UploadItem(changed[i])]
        k == Len(items)
        rest == {<<UploadDevice(items, accepted, way, glitch), 0>> :
                    accepted \in SUBSET (1..k), way \in {"put", "cgi"},
                    glitch \in 0..MaxGlitch}
                \cup {<<UploadDevice(items, 1..k, "put", 0), at>> : at \in 1..k}
    IN UNION {{UploadInput(labels, x[1], tel, x[2]) :
                 tel \in IF k > 0 /\ RestHandsOver(x[1], items, x[2])
                         THEN UploadPeers(k) ELSE {AnsweringPeer(k)}} : x \in rest}

UploadInputs(n) == UNION {InputsFor(labels) : labels \in Submissions(n)}

BlockNames == {"INPUT LABELS", "OUTPUT LABELS"}
BlockAcks ==
    {BlockAck("text", "ACK\n\n"), BlockAck("text", "ack\n"), BlockAck("text", "NAK\n\n"),
     BlockAck("text", ""), BlockAck("text", "ERR\n\n"),
     BlockAck("send_error", ""), BlockAck("lost", "")}
Videohubs ==
    {Videohub(outcome, "ok", [b \in BlockNames |-> BlockAck("text", "")]) :
        outcome \in {"refused", "timeout"}}
    \cup {Videohub("ok", "oserror", [b \in BlockNames |-> BlockAck("text", "")])}
    \cup {Videohub("ok", "ok", acks) : acks \in [BlockNames -> BlockAcks]}

-----------------------------------------------------------------------------
(* The life of one APIAgent: downloads and uploads, in any order, against   *)
(* the router it was constructed for                                        *)

\* The router of an agent: its REST side, how a Telnet connect ends, and its
\* replies to the label queries of a download and to the label commands of an
\* upload, in the order they are sent.
Router(dev, connect, queries, sets) ==
    [dev |-> dev, connect |-> connect, queries |-> queries, sets |-> sets]

\* The item at position i of the lists an agent uploads.
AgentItems == [i \in 1..MaxSubmitAgent |-> UploadItem(ShapedLabel(i, "changed"))]

\* dev, accepting the label updates that UploadDevice(...) accepts.
WithUploads(dev, accepted, way) ==
    LET up == UploadDevice(AgentItems, accepted, way, 0)
    IN [dev EXCEPT !.put_ok = up.put_ok, !.cgi_ok = up.cgi_ok]

RestProduces(dev) ==
    \/ download_labels_bulk(dev).labels # NoneV
    \/ download_labels_individual(dev).labels # NoneV

QuotedPeer == TelnetPeer("ok", QueryReplies("quoted", {}, "quoted"))
DeadDevice == Device("timeout", 0, <<>>, {}, {})
BulkDevice == Device("http_error", 0, bulk_endpoints[1] :> HttpJson(BulkBody("both", "str", 2)),
                     {}, {})

\* Every download device, with every Telnet peer where REST yields no labels,
\* accepting all updates; and three routers with every treatment of updates.
Routers ==
    UNION {{Router(WithUploads(dev, 1..MaxSubmitAgent, "put"), peer.connect, peer.replies,
                   AnsweringPeer(MaxSubmitAgent).replies) :
              peer \in IF RestProduces(dev) THEN {QuotedPeer} ELSE DownloadPeers} :
           dev \in DownloadDevices}
    \cup {Router(WithUploads(x[1], accepted, way), x[2].connect, x[2].replies, peer.replies) :
            x \in {<<BulkDevice, QuotedPeer>>, <<DeadDevice, QuotedPeer>>,
                   <<DeadDevice, TelnetPeer("refused", <<>>)>>},
            accepted \in SUBSET (1..MaxSubmitAgent), way \in {"put", "cgi"},
            peer \in {q \in UploadPeers(MaxSubmitAgent) : q.connect = "ok"}}

Init ==
    /\ router \in Routers
    /\ last_protocol = "none"
    /\ call = [op |-> "none"]

\* await agent.download_labels()
Download ==
    /\ call' = [op |-> "download",
                result |-> download_labels(router.dev,
                                           TelnetPeer(router.connect, router.queries))]
    /\ last_protocol' = call'.result.last_protocol
    /\ UNCHANGED router

\* await agent.upload_labels(labels), with no progress callback
Upload ==
    \E labels \in Submissions(MaxSubmitAgent) :
        /\ call' = [op |-> "upload", labels |-> labels,
                    result |-> upload_labels(labels, router.dev,
                                             TelnetPeer(router.connect, router.sets), 0)]
        /\ UNCHANGED <<router, last_protocol>>

Next == Download \/ Upload

Spec == Init /\ [][Next]_vars

-----------------------------------------------------------------------------
(* One upload, observed in full: the request is drawn with the device, and  *)
(* the operation requested is applied to it                                 *)

Request(target, labels, cb_raise_at) ==
    [op |-> "request", target |-> target, labels |-> labels, cb_raise_at |-> cb_raise_at]

ChangedItems(labels) ==
    LET changed == SelectSeq(labels, has_changes)
    IN [i \in 1..Len(changed) |-> UploadItem(changed[i])]

\* Every input of upload_labels of at most MaxSubmit labels.
SubmittedInputs == UploadInputs(MaxSubmit)

UploadRequests ==
    {<<Router(in.dev, in.tel.connect, <<>>, in.tel.replies),
       Request("upload_labels", in.labels, in.cb_raise_at)>> : in \in SubmittedInputs}
    \cup {<<Router(in.dev, "ok", <<>>, <<>>),
            Request("rest_batch", ChangedItems(in.labels), in.cb_raise_at)>> :
            in \in SubmittedInputs}
    \cup {<<Router(DeadDevice, "ok", <<>>, in.tel.replies),
            Request("telnet_batch", ChangedItems(in.labels), in.cb_raise_at)>> :
            in \in {x \in SubmittedInputs : x.tel.connect = "ok"}}
    \cup {<<hub, Request("videohub", labels, 0)>> :
            hub \in Videohubs, labels \in Submissions(MaxSubmit)}

\* The cap the KUMO parameter API puts on a label.
KUMO_MAX_LABEL_LENGTH == 50

\* Labels over the cap of their protocol: a Label that passes validation and
\* is too long for KUMO, and a RouterLabel too long for Videohub.
OverKumoLabel ==
    Label(1, "INPUT", Str("Cam 1"), Str(Repeat("k", KUMO_MAX_LABEL_LENGTH + 1)))
OverVideohubLabel == RouterLabel(1, "INPUT", Str("Cam 1"), Str(LongText))

Lw3Replies ==
    {Lw3Reply("raise", <<>>), Lw3Reply("lines", <<>>),
     Lw3Reply("lines", <<"pw /MEDIA/NAMES/VIDEO.I1=1;">>),
     Lw3Reply("lines", <<"pE /MEDIA/NAMES/VIDEO.I1 %E001:Syntax error">>)}
Lightwares ==
    {Lightware("refused", Lw3Reply("lines", <<>>))}
    \cup {Lightware("ok", reply) : reply \in Lw3Replies}
LightwareItems ==
    {[type |-> t, port |-> 1, label |-> text] :
        t \in PortTypes, text \in {"", "Stage Left", LongText}}

\* The uploads of a label over the cap, and the SETs of a Lightware label.
CapRequests ==
    {<<Router(UploadDevice(<<UploadItem(OverKumoLabel)>>, accepted, "put", 0),
              "ok", <<>>, AnsweringPeer(1).replies),
       Request("upload_labels", <<OverKumoLabel>>, 0)>> : accepted \in {{}, {1}}}
    \cup {<<Videohub("ok", "ok", [b \in BlockNames |-> BlockAck("text", "ACK\n\n")]),
            Request("videohub", <<OverVideohubLabel>>, 0)>>}
    \cup {<<dev, Request("lightware", <<item>>, 0)>> :
            dev \in Lightwares, item \in LightwareItems}

InitUpload ==
    /\ \E rq \in UploadRequests \cup CapRequests : router = rq[1] /\ call = rq[2]
    /\ last_protocol = "none"

Completed(op, result) ==
    [op |-> op, labels |-> call.labels, cb_raise_at |-> call.cb_raise_at, result |-> result]

\* A caller's list after an upload that applied the changes it had sent
\* (Label.apply_changes on every changed label once a label was accepted).
labels_applied_by_upload(labels, success_count) ==
    [i \in 1..Len(labels) |->
        IF success_count > 0 /\ labels[i].new_label # NoneV
        THEN [labels[i] EXCEPT !.current_label = labels[i].new_label, !.new_label = NoneV]
        ELSE labels[i]]

\* The caller's list once APIAgent.upload_labels or upload_videohub_labels has
\* returned success_count: both read the labels into new lists (the
\* comprehensions of lines 187 and 280-285, upload_data, the payload lines)
\* and hold no assignment to a label or to the list.
labels_after_upload(labels, success_count) == labels

\* await agent.upload_labels(labels, progress_callback)
UploadLabels ==
    /\ call.op = "request" /\ call.target = "upload_labels"
    /\ call' = Completed("upload_labels",
                         upload_labels(call.labels, router.dev,
                                       TelnetPeer(router.connect, router.sets),
                                       call.cb_raise_at))
               @@ [labels_after |->
                      labels_after_upload(call.labels,
                          upload_labels(call.labels, router.dev,
                                        TelnetPeer(router.connect, router.sets),
                                        call.cb_raise_at).success_count)]
    /\ UNCHANGED <<router, last_protocol>>

\* await rest.upload_labels_batch(labels, progress_callback)
RestUploadBatch ==
    /\ call.op = "request" /\ call.target = "rest_batch"
    /\ call' = Completed("rest_batch",
                         rest_upload_labels_batch(router.dev, call.labels, call.cb_raise_at))
    /\ UNCHANGED <<router, last_protocol>>

\* await telnet.upload_labels_batch(labels, progress_callback), connected
TelnetUploadBatch ==
    /\ call.op = "request" /\ call.target = "telnet_batch"
    /\ call' = Completed("telnet_batch",
                         telnet_upload_labels_batch(router.sets, call.labels,
                                                    call.cb_raise_at))
    /\ UNCHANGED <<router, last_protocol>>

\* upload_videohub_labels(ip, labels)
UploadVideohubLabels ==
    /\ call.op = "request" /\ call.target = "videohub"
    /\ call' = Completed("upload_videohub_labels", upload_videohub_labels(call.labels, router))
               @@ [labels_after |->
                      labels_after_upload(call.labels,
                          upload_videohub_labels(call.labels, router).success_count)]
    /\ UNCHANGED <<router, last_protocol>>

\* upload_lightware_label(ip, port_type, port_num, label)
UploadLightwareLabel ==
    /\ call.op = "request" /\ call.target = "lightware"
    /\ call' = Completed("upload_lightware_label",
                         upload_lightware_label(router, call.labels[1].type,
                                                call.labels[1].port, call.labels[1].label))
    /\ UNCHANGED <<router, last_protocol>>

NextUpload ==
    \/ UploadLabels \/ RestUploadBatch \/ TelnetUploadBatch \/ UploadVideohubLabels
    \/ UploadLightwareLabel

SpecUpload == InitUpload /\ [][NextUpload]_vars

-----------------------------------------------------------------------------
(* has_changes of the two label classes, applied to one label *)

LabelTexts == {"", "Cam 1", "Cam 2", "cam 1"}
LabelValues ==
    {Label(port, port_type, Str(current), new) :
        port \in {1, MAX_PORT_NUMBER}, port_type \in PortTypes, current \in LabelTexts,
        new \in {NoneV} \cup {Str(text) : text \in LabelTexts}}

NoRouter == [dev |-> "none"]

InitLabel ==
    /\ router = NoRouter
    /\ last_protocol = "none"
    /\ \E label \in LabelValues, class \in {"Label", "RouterLabel"} :
           call = [op |-> "request", target |-> class, label |-> label]

\* label.has_changes() of a Label
LabelHasChanges ==
    /\ call.op = "request" /\ call.target = "Label"
    /\ call' = [op |-> "has_changes", class |-> "Label", label |-> call.label,
                result |-> has_changes(call.label)]
    /\ UNCHANGED <<router, last_protocol>>

\* label.has_changes() of a RouterLabel
RouterLabelHasChanges ==
    /\ call.op = "request" /\ call.target = "RouterLabel"
    /\ call' = [op |-> "has_changes", class |-> "RouterLabel", label |-> call.label,
                result |-> router_label_has_changes(call.label)]
    /\ UNCHANGED <<router, last_protocol>>

NextLabel == LabelHasChanges \/ RouterLabelHasChanges

SpecLabel == InitLabel /\ [][NextLabel]_vars

-----------------------------------------------------------------------------
(* One call of RestClient._make_request *)

\* The requests the client makes: a bulk GET, a label PUT and the setlabel
\* POST, with every number of attempts up to MAX_RETRIES.
HttpRequest(method, endpoint, json_data, retries) ==
    [op |-> "request", target |-> "make_request", method |-> method,
     endpoint |-> endpoint, json_data |-> json_data, retries |-> retries]
HttpRequests ==
    {HttpRequest(x[1], x[2], x[3], retries) :
        x \in {<<"GET", bulk_endpoints[1], NoneV>>,
               <<"PUT", update_endpoint("INPUT", 1), [label |-> "New 1"]>>,
               <<"POST", CGI_SET_LABEL, [type |-> "INPUT", port |-> 1, label |-> "New 1"]>>},
        retries \in 0..MAX_RETRIES}

\* The devices a request can meet: serving it or failing it in each way,
\* after any number of lost attempts.
RequestDevices ==
    {Device(mode, glitch, get, put_ok, cgi_ok) :
        mode \in FailModes, glitch \in 0..MAX_RETRIES,
        get \in {<<>>, bulk_endpoints[1] :> HttpJson(BulkBody("both", "str", 2)),
                 bulk_endpoints[1] :> HttpText("ok")},
        put_ok \in {{}, {update_endpoint("INPUT", 1)}},
        cgi_ok \in {{}, {<<"INPUT", 1>>}}}

InitRequest ==
    /\ router \in RequestDevices
    /\ call \in HttpRequests
    /\ last_protocol = "none"

\* await self._make_request(method, endpoint, json_data=..., retries=...)
MakeRequest ==
    /\ call.op = "request" /\ call.target = "make_request"
    /\ call' = [call EXCEPT !.op = "make_request"]
               @@ [result |-> make_request(router, call.method, call.endpoint,
                                           call.json_data, call.retries)]
    /\ UNCHANGED <<router, last_protocol>>

NextRequest == MakeRequest

SpecRequest == InitRequest /\ [][NextRequest]_vars

-----------------------------------------------------------------------------
(* The loops of RestClient.download_labels_individual and                   *)
(* RestClient.upload_labels_batch, one awaited request at a time            *)

\* labels[side].append(label or default): the slot of the port is the next
\* free index of its list.
StoreFetchedFirst(slots, label, default) ==
    <<IF Truthy(label) THEN label ELSE Str(default)>> \o slots

StoreFetched(slots, label, default) ==
    Append(slots, IF Truthy(label) THEN label ELSE Str(default))

\* The loop of download_labels_individual about to query `port` of
\* `port_type`: in_flight is the number of queries awaited, written the
\* slots written so far, in order.
Fetching(port_type, port, in_flight, inputs, outputs, success_count, written) ==
    [op |-> "individual", port_type |-> port_type, port |-> port, in_flight |-> in_flight,
     inputs |-> inputs, outputs |-> outputs, success_count |-> success_count,
     written |-> written]

\* The loop of upload_labels_batch about to upload item idx.
Uploading(labels, idx, in_flight, acc) ==
    [op |-> "batch", labels |-> labels, idx |-> idx, in_flight |-> in_flight, acc |-> acc]

PoolItems == [i \in 1..2 |-> UploadItem(ShapedLabel(i, "changed"))]
PoolDevices ==
    {Device("http_error", 0, get, {}, {}) :
        get \in {<<>>, PortGets(AllPorts, 1, "obj"), PortGets(AllPorts, 2, "text"),
                 PortGets({<<"INPUT", 2>>, <<"OUTPUT", 1>>}, 1, "obj")}}
    \cup {UploadDevice(PoolItems, accepted, "put", 0) : accepted \in SUBSET (1..2)}

InitPool ==
    /\ router \in PoolDevices
    /\ call \in {Fetching("INPUT", 1, 0, <<>>, <<>>, 0, <<>>),
                 Uploading(PoolItems, 1, 0, BatchResult(FALSE, 0, 0, <<>>, <<>>))}
    /\ last_protocol = "none"

\* label = await self._query_input_label(port): the query is sent
IssuePortQuery ==
    /\ call.op = "individual" /\ call.port_type \in PortTypes /\ call.in_flight = 0
    /\ call' = [call EXCEPT !.in_flight = @ + 1]
    /\ UNCHANGED <<router, last_protocol>>

\* the query is answered, its label or the default is appended, and the loop
\* moves to the next port
PortQueryReturns ==
    /\ call.op = "individual" /\ call.port_type \in PortTypes /\ call.in_flight > 0
    /\ call' = [call EXCEPT
           !.in_flight = @ - 1,
           !.inputs = IF call.port_type = "INPUT"
                      THEN StoreFetched(@, query_label(router, "INPUT", call.port),
                                        generate_input_label(call.port))
                      ELSE @,
           !.outputs = IF call.port_type = "OUTPUT"
                       THEN StoreFetched(@, query_label(router, "OUTPUT", call.port),
                                         generate_output_label(call.port))
                       ELSE @,
           !.success_count = IF Truthy(query_label(router, call.port_type, call.port))
                             THEN @ + 1 ELSE @,
           !.written = Append(@, <<call.port_type, call.port,
                                   (IF call.port_type = "INPUT" THEN Len(call.inputs)
                                    ELSE Len(call.outputs)) + 1>>),
           !.port = IF call.port = REST_PORTS THEN 1 ELSE @ + 1,
           !.port_type = IF call.port < REST_PORTS THEN @
                         ELSE IF @ = "INPUT" THEN "OUTPUT" ELSE "done"]
    /\ UNCHANGED <<router, last_protocol>>

\* return Protocol.REST_INDIVIDUAL, labels or None
IndividualReturns ==
    /\ call.op = "individual" /\ call.port_type = "done"
    /\ call' = [op |-> "individual_done", written |-> call.written,
                result |-> [protocol |-> "rest_individual",
                            labels |-> IF call.success_count > 0
                                       THEN Dict([inputs |-> List(call.inputs),
                                                  outputs |-> List(call.outputs)])
                                       ELSE NoneV]]
    /\ UNCHANGED <<router, last_protocol>>

\* success, error_msg = await self.upload_label(...): the upload is sent
IssueUpload ==
    /\ call.op = "batch" /\ call.idx <= Len(call.labels) /\ call.in_flight = 0
    /\ call' = [call EXCEPT !.in_flight = @ + 1]
    /\ UNCHANGED <<router, last_protocol>>

\* the upload is answered and counted, and the loop moves to the next item
UploadReturns ==
    /\ call.op = "batch" /\ call.idx <= Len(call.labels) /\ call.in_flight > 0
    /\ call' = [call EXCEPT
           !.in_flight = @ - 1,
           !.idx = @ + 1,
           !.acc = LET u == rest_upload_label(router, call.labels[call.idx])
                   IN BatchResult(FALSE,
                                  @.success_count + (IF u.success THEN 1 ELSE 0),
                                  @.error_count + (IF u.success THEN 0 ELSE 1),
                                  @.error_messages
                                      \o (IF u.success \/ u.error_msg = "" THEN <<>>
                                          ELSE <<u.error_msg>>),
                                  @.log \o u.log)]
    /\ UNCHANGED <<router, last_protocol>>

\* return success_count, error_count, error_messages
BatchReturns ==
    /\ call.op = "batch" /\ call.idx > Len(call.labels)
    /\ call' = [op |-> "batch_done", labels |-> call.labels, result |-> call.acc]
    /\ UNCHANGED <<router, last_protocol>>

NextPool ==
    \/ IssuePortQuery \/ PortQueryReturns \/ IndividualReturns
    \/ IssueUpload \/ UploadReturns \/ BatchReturns

SpecPool == InitPool /\ [][NextPool]_vars

-----------------------------------------------------------------------------
(* One initial state dump of a Videohub, parsed by _parse_videohub_dump *)

\* The most entries a label block of a dump holds.
MaxDumpEntries == 2

\* "".join(line + eol for line in lines)
RECURSIVE JoinWith(_, _)
JoinWith(lines, eol) ==
    IF lines = <<>> THEN "" ELSE Head(lines) \o eol \o JoinWith(Tail(lines), eol)

\* The lines a device can put into a label block: indices inside and beyond
\* the declared count, an index without text, a text with blanks, a line
\* that does not start with a number, a negative index.
DumpEntries ==
    {"0 Camera 1", "2 Camera 3", "4 Far", "1", "1 Two Words", "x Bad", "-1 Ghost"}

DumpEntryLists == UNION {[1..n -> DumpEntries] : n \in 0..MaxDumpEntries}

\* What the device block declares about the inputs.
DumpDeclarations ==
    {<<>>, <<"Video inputs: 3">>, <<"Video inputs: 2">>, <<"Video inputs: 0">>,
     <<"Video inputs: many">>}

\* The dump a Videohub sends on connect.
VideohubDump(eol, declared, input_entries, output_entries) ==
    JoinWith(<<"PROTOCOL PREAMBLE:", "Version: 2.8", "",
               "VIDEOHUB DEVICE:", "Device present: true", "Model name: Smart Videohub">>
             \o declared
             \o <<"Video outputs: 2", "", "INPUT LABELS:">> \o input_entries
             \o <<"", "OUTPUT LABELS:">> \o output_entries \o <<"">>,
             eol)

VideohubDumps ==
    {[raw |-> VideohubDump(eol, declared, input_entries, output_entries),
      declared |-> declared, input_entries |-> input_entries,
      output_entries |-> output_entries] :
        eol \in {"\n", "\r\n"}, declared \in DumpDeclarations,
        input_entries \in DumpEntryLists,
        output_entries \in {<<>>, <<"0 Monitor">>, <<"5 Wall", "0">>}}

InitDump ==
    /\ router \in VideohubDumps
    /\ call = [op |-> "request", target |-> "parse_videohub_dump"]
    /\ last_protocol = "none"

\* info = _parse_videohub_dump(raw)
ParseVideohubDump ==
    /\ call.op = "request" /\ call.target = "parse_videohub_dump"
    /\ call' = [op |-> "parse_videohub_dump", result |-> parse_videohub_dump(router.raw)]
    /\ UNCHANGED <<router, last_protocol>>

NextDump == ParseVideohubDump

SpecDump == InitDump /\ [][NextDump]_vars

-----------------------------------------------------------------------------
(* Lightware connections: connect_lightware and upload_lightware_label, one  *)
(* call of _lw3_send_command at a time                                       *)

\* The most connections opened to one device.
MaxConnections == 2

\* The label a SET is sent for.
Lw3Item == [type |-> "INPUT", port |-> 1, label |-> "Stage Left"]

\* The commands a caller issues on its connection.
Lw3Commands(caller) ==
    IF caller = "connect_lightware" THEN ConnectCommands
    ELSE <<upload_lightware_label(Lightware("ok", Lw3Reply("lines", <<>>)),
                                  Lw3Item.type, Lw3Item.port, Lw3Item.label).log[1].target>>

\* The most commands MaxConnections connections issue.
MaxCommands == MaxConnections * Len(ConnectCommands)

\* The response block of request req_id on the wire.
Lw3Block(req_id, lines) == "{" \o ZeroPad4(req_id) \o "\r\n" \o JoinWith(lines, "\r\n") \o "}\r\n"

\* The lines a device answers a command with.
Lw3Answer(command) ==
    CASE command = ConnectCommands[1] -> <<"pr /.ProductName=MX2-8x8-HDMI20">>
      [] command = ConnectCommands[2] -> <<"pr /MEDIA/XP/VIDEO.SourcePortCount=2">>
      [] command = ConnectCommands[3] -> <<"pr /MEDIA/XP/VIDEO.DestinationPortCount=3">>
      [] command = ConnectCommands[4] ->
           <<"pw /MEDIA/NAMES/VIDEO.I1=1;Cam A", "pw /MEDIA/NAMES/VIDEO.O2=2;Wall">>
      [] OTHER -> <<"pw " \o SubSeq(command, 5, Len(command))>>

\* What a device does with one command: it answers with the block of the
\* request, with the block of another request first, with the block of
\* another request only, with an error line (pE, nE, -E, first or last in the
\* block), with a line of other text, with an empty block, with a block it
\* never closes, or not at all; or the command cannot be sent.
Lw3WireKinds ==
    {"block", "stale_first", "other_only", "error", "node_error", "dash_error", "late_error",
     "odd_text", "empty_block", "truncated", "cut_after_line", "silent", "oserror", "raise"}

Lw3WireOf(kind, req_id, command) ==
    CASE kind = "block" -> Lw3Wire("ok", Lw3Block(req_id, Lw3Answer(command)))
      [] kind = "stale_first" ->
           Lw3Wire("ok", Lw3Block(req_id + 1, <<"pr /.SerialNumber=00001">>)
                         \o Lw3Block(req_id, Lw3Answer(command)))
      [] kind = "other_only" -> Lw3Wire("ok", Lw3Block(req_id + 1, Lw3Answer(command)))
      [] kind = "error" ->
           Lw3Wire("ok", Lw3Block(req_id, <<"pE " \o command \o " %E001:Syntax error">>))
      [] kind = "node_error" ->
           Lw3Wire("ok", Lw3Block(req_id, <<"nE " \o command \o " %E002:Not exists">>))
      [] kind = "dash_error" -> Lw3Wire("ok", Lw3Block(req_id, <<"-E %E003:Access denied">>))
      [] kind = "late_error" ->
           Lw3Wire("ok", Lw3Block(req_id, Lw3Answer(command) \o <<"pE %E004:Invalid value">>))
      [] kind = "odd_text" -> Lw3Wire("ok", Lw3Block(req_id, <<"E%pE unexpected">>))
      [] kind = "empty_block" -> Lw3Wire("ok", Lw3Block(req_id, <<>>))
      [] kind = "truncated" ->
           Lw3Wire("ok", "{" \o ZeroPad4(req_id) \o "\r\n"
                         \o JoinWith(Lw3Answer(command), "\r\n"))
      [] kind = "cut_after_line" ->
           Lw3Wire("ok", "{" \o ZeroPad4(req_id) \o "\r\n"
                         \o JoinWith(Lw3Answer(command), "\r\n") \o "\r\n")
      [] kind = "silent" -> Lw3Wire("ok", "")
      [] OTHER -> Lw3Wire(kind, "")

\* A Lightware device: how a connect ends and what it does with the commands
\* it is sent, in the order they are sent.
Lw3Devices ==
    {[connect |-> outcome, kinds |-> [k \in 1..MaxCommands |-> "block"]] :
        outcome \in {"refused", "timeout"}}
    \cup {[connect |-> "ok", kinds |-> [k \in 1..MaxCommands |-> base]] :
            base \in Lw3WireKinds}
    \cup {[connect |-> "ok",
           kinds |-> [k \in 1..MaxCommands |-> IF k = odd THEN other ELSE "block"]] :
            odd \in 1..MaxCommands, other \in Lw3WireKinds \ {"block"}}

InitLw3 ==
    /\ router \in Lw3Devices
    /\ call = [op |-> "idle", caller |-> "none", conn |-> 0, issued |-> 0, send_id |-> 0,
               sent |-> <<>>, replies |-> <<>>, result |-> NoneV]
    /\ last_protocol = "none"

\* sock = socket.create_connection(...); send_id = [1]
OpenLightware ==
    /\ call.op \in {"idle", "closed"} /\ call.conn < MaxConnections
    /\ \E caller \in {"connect_lightware", "upload_lightware_label"} :
        call' = IF router.connect = "ok"
                THEN [call EXCEPT !.op = "open", !.caller = caller, !.conn = @ + 1,
                                  !.send_id = 1, !.sent = <<>>, !.replies = <<>>,
                                  !.result = NoneV]
                ELSE [call EXCEPT !.op = "closed", !.caller = caller, !.conn = @ + 1,
                                  !.send_id = 0, !.sent = <<>>, !.replies = <<>>,
                                  !.result = [ok |-> FALSE, info |-> NoneV]]
    /\ UNCHANGED <<router, last_protocol>>

\* The state of the caller, were the counter advanced by answered commands
\* only
AfterAnsweredCommand(reply) ==
    [call EXCEPT !.issued = @ + 1,
                 !.send_id = IF reply.lines # <<>> THEN @ + 1 ELSE @,
                 !.sent = Append(@, reply.framed),
                 !.replies = Append(@, [kind |-> reply.kind, lines |-> reply.lines])]

\* The state of the caller after _lw3_send_command returned or raised.
AfterCommand(reply) ==
    [call EXCEPT !.issued = @ + 1, !.send_id = @ + 1,
                 !.sent = Append(@, reply.framed),
                 !.replies = Append(@, [kind |-> reply.kind, lines |-> reply.lines])]

\* The caller stops issuing commands: it issued them all, or one raised.
Lw3Done ==
    \/ Len(call.replies) = Len(Lw3Commands(call.caller))
    \/ \E k \in 1..Len(call.replies) : call.replies[k].kind = "raise"

\* lines = _lw3_send_command(sock, command, send_id)
Lw3SendCommand ==
    /\ call.op = "open" /\ ~Lw3Done
    /\ call' = AfterCommand(
                   lw3_send_command(
                       Lw3WireOf(router.kinds[call.issued + 1], call.send_id,
                                 Lw3Commands(call.caller)[Len(call.sent) + 1]),
                       Lw3Commands(call.caller)[Len(call.sent) + 1], call.send_id))
    /\ UNCHANGED <<router, last_protocol>>

\* finally: sock.close(), and the return of the caller
CloseLightware ==
    /\ call.op = "open" /\ Lw3Done
    /\ call' = [call EXCEPT
                   !.op = "closed",
                   !.result =
                       IF call.caller = "connect_lightware" THEN connect_lightware(call.replies)
                       ELSE [ok |-> upload_lightware_label(
                                        Lightware("ok", call.replies[1]),
                                        Lw3Item.type, Lw3Item.port, Lw3Item.label).ok,
                             info |-> NoneV]]
    /\ UNCHANGED <<router, last_protocol>>

NextLw3 == OpenLightware \/ Lw3SendCommand \/ CloseLightware

SpecLw3 == InitLw3 /\ [][NextLw3]_vars

-----------------------------------------------------------------------------
(* One call of detect_router_type *)

\* The most chunks the Lightware port delivers to one probe.
MaxChunks == 2

ProbeChunks ==
    {"{0001\r\n", "pr /.ProductName=MX2-8x8-HDMI20\r\n", "}\r\n",
     "{0001\r\npr /.ProductName=MX2-8x8-HDMI20\r\n}\r\n", "{0001\r\nnE %E002\r\n}\r\n",
     "PROTOCOL PREAMBLE:\n"}

\* What answers on the Lightware port: the connect fails, the command cannot
\* be sent, or chunks arrive and the read ends.
LightwarePorts ==
    {[connect |-> outcome, send |-> "ok", chunks |-> <<>>, ending |-> "timeout"] :
        outcome \in {"refused", "timeout"}}
    \cup {[connect |-> "ok", send |-> "oserror", chunks |-> <<>>, ending |-> "timeout"]}
    \cup {[connect |-> "ok", send |-> "ok", chunks |-> chunks, ending |-> ending] :
            chunks \in UNION {[1..n -> ProbeChunks] : n \in 0..MaxChunks},
            ending \in {"timeout", "closed", "oserror"}}

\* What answers on the Videohub port.
VideohubPorts ==
    {[connect |-> outcome, readline |-> "ok", first_line |-> ""] :
        outcome \in {"refused", "timeout"}}
    \cup {[connect |-> "ok", readline |-> outcome, first_line |-> ""] :
            outcome \in {"timeout", "oserror"}}
    \cup {[connect |-> "ok", readline |-> "ok", first_line |-> line] :
            line \in {"PROTOCOL PREAMBLE:\n", "Version: 2.8\n", "", "PROTOCOL PREAMBLE"}}

InitDetect ==
    /\ router \in {[lw |-> lw, vh |-> vh] : lw \in LightwarePorts, vh \in VideohubPorts}
    /\ call = [op |-> "request", target |-> "detect_router_type"]
    /\ last_protocol = "none"

\* router_type = detect_router_type(ip)
DetectRouterType ==
    /\ call.op = "request" /\ call.target = "detect_router_type"
    /\ call' = [op |-> "detect_router_type", result |-> detect_router_type(router)]
    /\ UNCHANGED <<router, last_protocol>>

NextDetect == DetectRouterType

SpecDetect == InitDetect /\ [][NextDetect]_vars

-----------------------------------------------------------------------------
(* The port-count detection of KumoManager.show_status *)

\* The sources whose name the detection reads.
ProbedPorts == {<<"INPUT", 17>>, <<"INPUT", 33>>}

\* The routers a detection can meet: the sources in `answered` answer, at the
\* first or the second endpoint, with a name or with an empty document.
StatusDevices ==
    {Device(mode, glitch, PortGets(answered, way, kind), {}, {}) :
        mode \in FailModes, glitch \in 0..MaxGlitch, answered \in SUBSET ProbedPorts,
        way \in 1..2, kind \in PortReplyKinds \cup EmptyPortReplyKinds}

InitStatus ==
    /\ router \in StatusDevices
    /\ call = [op |-> "request", target |-> "detect_port_count"]
    /\ last_protocol = "none"

\* port_count = await rest.detect_port_count()
DetectPortCount ==
    /\ call.op = "request" /\ call.target = "detect_port_count"
    /\ call' = [op |-> "detect_port_count", result |-> detect_port_count(router)]
    /\ UNCHANGED <<router, last_protocol>>

NextStatus == DetectPortCount

SpecStatus == InitStatus /\ [][NextStatus]_vars

-----------------------------------------------------------------------------
(* agents/file_handler: schema.py and excel_handler.py                      *)

\* PortData(port, type, current_label, new_label, notes): the labels and the
\* notes are texts, new_label is a text or None.
PortData(port, type, current_label, new_label, notes) ==
    [port |-> port, type |-> type, current_label |-> current_label,
     new_label |-> new_label, notes |-> notes]

MAX_FILE_PORT == 120
MAX_LABEL_TEXT == 255

\* The validation of PortData(...): ValidationError, a ValueError, unless the
\* port is within 1..120, the type one of the two literals and the labels at
\* most 255 characters.
PortDataValid(port, type, current_label, new_label) ==
    /\ port \in 1..MAX_FILE_PORT
    /\ type \in {"INPUT", "OUTPUT"}
    /\ Len(current_label) <= MAX_LABEL_TEXT
    /\ new_label # NoneV => Len(new_label.s) <= MAX_LABEL_TEXT

\* FileData.validate_ports: no (port, type) twice.
validate_ports(ports) ==
    \A i, j \in 1..Len(ports) :
        (ports[i].port = ports[j].port /\ ports[i].type = ports[j].type) => i = j

\* ports.sort(key=lambda p: p.port) on ports of one type, whose numbers differ
RECURSIVE SortedByPort(_)
SortedByPort(ports) ==
    IF ports = <<>> THEN <<>>
    ELSE LET least == CHOOSE i \in 1..Len(ports) :
                          \A j \in 1..Len(ports) : ports[i].port <= ports[j].port
         IN <<ports[least]>>
            \o SortedByPort(SubSeq(ports, 1, least - 1) \o SubSeq(ports, least + 1, Len(ports)))

\* ExcelHandler._write_row: the values of the cells A..E of the row
write_row(port_data) ==
    <<Num(port_data.port), Str(port_data.type), Str(port_data.current_label),
      IF Truthy(port_data.new_label) THEN port_data.new_label ELSE Str(""),
      Str(port_data.notes)>>

\* ExcelHandler._write_section_separator: the title in A, B..E merged into it
write_section_separator(title) == <<Str(title), NoneV, NoneV, NoneV, NoneV>>

\* ExcelHandler.write_excel(path, data), create_template false: the rows of
\* the worksheet from row 2 on - the inputs by port, then, where there are
\* outputs, the separator and the outputs by port.
write_excel(data) ==
    LET inputs == SortedByPort(SelectSeq(data, LAMBDA p : p.type = "INPUT"))
        outputs == SortedByPort(SelectSeq(data, LAMBDA p : p.type = "OUTPUT"))
    IN [i \in 1..Len(inputs) |-> write_row(inputs[i])]
       \o (IF outputs = <<>> THEN <<>>
           ELSE <<write_section_separator("OUTPUTS (Destinations)")>>
                \o [i \in 1..Len(outputs) |-> write_row(outputs[i])])

\* openpyxl.load_workbook(file_path, data_only=True): the value of a cell that
\* was saved holding v.  An empty text is saved as an empty cell.  A text of
\* more than one character that begins with "=" is saved as a formula, and
\* data_only asks for the result the formula had when a spreadsheet program
\* last computed it: a workbook saved by openpyxl holds none.
CellLoaded(v) ==
    IF v.t = "str" /\ (v.s = "" \/ (Len(v.s) > 1 /\ SubSeq(v.s, 1, 1) = "="))
    THEN NoneV ELSE v

\* int(port_value) of a cell that holds a number or a text
PortInt(v) == IF v.t = "int" THEN [ok |-> TRUE, n |-> v.n] ELSE ParseInt(v.s)

\* The new_label of a row read with every whitespace-only cell kept as text.
NewLabelOfCellUnstripped(raw) ==
    IF raw # NoneV /\ PyStr(raw) # "" THEN Str(Strip(PyStr(raw))) ELSE NoneV

\* read_excel, line 107: the new_label of a row from its New_Label cell
NewLabelOfCell(raw) ==
    IF raw # NoneV /\ Strip(PyStr(raw)) # "" THEN Str(Strip(PyStr(raw))) ELSE NoneV

\* read_excel, lines 106-116: the PortData of a data row
RowPortData(row, port_int) ==
    PortData(port_int,
             IF Truthy(row[2]) THEN Strip(PyStr(row[2])) ELSE "INPUT",
             IF Truthy(row[3]) THEN Strip(PyStr(row[3])) ELSE "",
             NewLabelOfCell(row[4]),
             IF Truthy(row[5]) THEN Strip(PyStr(row[5])) ELSE "")

\* read_excel, lines 92-103: the rows that are skipped - empty ones, and those
\* whose first cell is empty or no integer
RowSkipped(row) ==
    \/ \A c \in 1..Len(row) : row[c] = NoneV
    \/ row[1] = NoneV
    \/ ~PortInt(row[1]).ok

\* The loop of read_excel from row i of the loaded rows on.
RECURSIVE ReadRowsFrom(_, _, _)
ReadRowsFrom(rows, i, ports) ==
    IF i > Len(rows) THEN [raised |-> ~validate_ports(ports), ports |-> ports]
    ELSE IF RowSkipped(rows[i]) THEN ReadRowsFrom(rows, i + 1, ports)
    ELSE IF ~PortDataValid(PortInt(rows[i][1]).n,
                           RowPortData(rows[i], 0).type,
                           RowPortData(rows[i], 0).current_label,
                           RowPortData(rows[i], 0).new_label)
    THEN [raised |-> TRUE, ports |-> <<>>]
    ELSE ReadRowsFrom(rows, i + 1,
                      Append(ports, RowPortData(rows[i], PortInt(rows[i][1]).n)))

\* ExcelHandler.read_excel(path) of a file whose worksheet holds `sheet` from
\* row 2 on.
read_excel(sheet) ==
    ReadRowsFrom([r \in 1..Len(sheet) |-> [c \in 1..Len(sheet[r]) |-> CellLoaded(sheet[r][c])]],
                 1, <<>>)

-----------------------------------------------------------------------------
(* An APIAgent constructed with or without an event bus: its downloads and  *)
(* connection tests and the events they publish                             *)

\* Label.to_dict
to_dict(label) ==
    [port_number |-> label.port_number, port_type |-> label.port_type,
     current_label |-> label.current_label, new_label |-> label.new_label,
     has_changes |-> has_changes(label)]

\* LabelsEvent(labels, source, operation), its data updated with metadata
LabelsEvent(labels, source, operation, metadata) ==
    [event_type |-> "labels", labels |-> labels, source |-> source,
     operation |-> operation, metadata |-> metadata]

\* ConnectionEvent(router_ip, connected, error_message)
ConnectionEvent(connected, error_message) ==
    [event_type |-> "connection", connected |-> connected, error_message |-> error_message]

\* The body of APIAgent._emit_labels_event: the events it publishes.
emit_labels_event(event_bus, labels, source, operation, metadata) ==
    IF ~event_bus THEN <<>>
    ELSE <<LabelsEvent([i \in 1..Len(labels) |-> to_dict(labels[i])],
                       source, operation, metadata)>>

\* The body of APIAgent._emit_connection_event: the events it publishes.
emit_connection_event(event_bus, connected, error_message) ==
    IF ~event_bus THEN <<>> ELSE <<ConnectionEvent(connected, error_message)>>

\* The statement `self._emit_labels_event(...)`, `self._emit_connection_event(...)`:
\* both are coroutine functions, called without await; the coroutine object is
\* created and dropped, and its body - what it would publish - never runs.
CalledWithoutAwait(would_publish) == <<>>

\* RestClient.test_connection: one attempt at each bulk endpoint.
rest_test_connection(dev) ==
    \E e \in 1..Len(bulk_endpoints) :
        make_request(dev, "GET", bulk_endpoints[e], NoneV, 1).success

\* APIAgent.test_connection: REST, then Telnet, then failure.
test_connection(dev, tel) ==
    IF rest_test_connection(dev) THEN [connected |-> TRUE, error_message |-> NoneV]
    ELSE IF telnet_connect(tel.connect).connected
    THEN [connected |-> TRUE, error_message |-> NoneV]
    ELSE [connected |-> FALSE, error_message |-> Str("Cannot connect to router")]

\* The events of a download: lines 144-149 after the conversion, lines
\* 161-166 in the exception handler.
DownloadEvents(event_bus, result) ==
    IF result.path = "try"
    THEN CalledWithoutAwait(emit_labels_event(event_bus, result.labels, "router", "download",
                                              [protocol |-> result.last_protocol]))
    ELSE IF result.raised THEN <<>>
    ELSE CalledWithoutAwait(emit_labels_event(event_bus, result.labels, "default", "download",
                                              [error |-> "conversion"]))

InitBus ==
    /\ router \in Routers
    /\ last_protocol = "none"
    /\ call \in {[op |-> "none", event_bus |-> b, published |-> <<>>] : b \in BOOLEAN}

\* await agent.download_labels()
BusDownload ==
    /\ call' = [op |-> "download", event_bus |-> call.event_bus,
                result |-> download_labels(router.dev,
                                           TelnetPeer(router.connect, router.queries)),
                published |-> DownloadEvents(call.event_bus,
                                  download_labels(router.dev,
                                                  TelnetPeer(router.connect, router.queries)))]
    /\ last_protocol' = call'.result.last_protocol
    /\ UNCHANGED router

\* await agent.test_connection()
BusTestConnection ==
    /\ call' = [op |-> "test_connection", event_bus |-> call.event_bus,
                result |-> test_connection(router.dev,
                                           TelnetPeer(router.connect, router.queries)),
                published |-> CalledWithoutAwait(
                    emit_connection_event(call.event_bus,
                        test_connection(router.dev,
                            TelnetPeer(router.connect, router.queries)).connected,
                        test_connection(router.dev,
                            TelnetPeer(router.connect, router.queries)).error_message))]
    /\ UNCHANGED <<router, last_protocol>>

NextBus == BusDownload \/ BusTestConnection

SpecBus == InitBus /\ [][NextBus]_vars

-----------------------------------------------------------------------------
(* A file of ExcelHandler: written from a FileData, edited by its user in   *)
(* the New_Label column, read back                                          *)

MaxPorts == 2
MaxEdits == 1

FilePorts ==
    {PortData(x[1], x[2], current_label, new_label, "") :
        x \in {<<1, "INPUT">>, <<2, "INPUT">>, <<1, "OUTPUT">>},
        current_label \in {"Camera 1", "", "=A1"},
        new_label \in {NoneV, Str("Main")}}

\* Every FileData of at most MaxPorts ports, in every order.
FileDatas ==
    {data \in UNION {[1..n -> FilePorts] : n \in 0..MaxPorts} : validate_ports(data)}

\* What a user leaves in a New_Label cell.
TypedValues == {Str("Main Camera"), Str("  Cam 2 "), Str("   "), Str(""), Num(5), NoneV}

InitExcel ==
    /\ router = DeadDevice
    /\ last_protocol = "none"
    /\ call \in {[op |-> "write_excel", data |-> data] : data \in FileDatas}

\* handler.write_excel(path, data)
WriteExcel ==
    /\ call.op = "write_excel"
    /\ call' = [op |-> "file", data |-> call.data, written |-> write_excel(call.data),
                sheet |-> write_excel(call.data), edited |-> <<>>]
    /\ UNCHANGED <<router, last_protocol>>

\* The user types into the New_Label cell of a data row and saves the file.
EditNewLabel ==
    /\ call.op = "file" /\ Len(call.edited) < MaxEdits
    /\ \E r \in 1..Len(call.sheet), v \in TypedValues :
          /\ call.sheet[r][1].t = "int"
          /\ call' = [call EXCEPT !.sheet[r][4] = v, !.edited = Append(@, r)]
    /\ UNCHANGED <<router, last_protocol>>

\* handler.read_excel(path)
ReadExcel ==
    /\ call.op = "file"
    /\ call' = [call EXCEPT !.op = "read_excel"] @@ [loaded |-> read_excel(call.sheet)]
    /\ UNCHANGED <<router, last_protocol>>

NextExcel == WriteExcel \/ EditNewLabel \/ ReadExcel

SpecExcel == InitExcel /\ [][NextExcel]_vars

-----------------------------------------------------------------------------
(* coordinator/event_bus.py: an EventBus, its subscribers and their queues *)

MaxPublished == 2
MaxStarts == 2
DEFAULT_MAX_QUEUE_SIZE == 1000

\* The queues of the subscribers: the n-th start of an agent creates "q<n>".
Queues == {"q" \o ToString(n) : n \in 1..MaxStarts}
EventTypes == {"labels", "connection"}

\* EventBus.__init__ and the empty queues of the subscribers-to-be; raised
\* tells whether the last call left with an exception.
EventBus(subscribers, global_subscribers, queues) ==
    [subscribers |-> subscribers, global_subscribers |-> global_subscribers,
     queues |-> queues, raised |-> FALSE]

\* `with self._lock:` where self._lock = asyncio.Lock() (line 35): the lock is
\* an asynchronous context manager only, `async with`; the plain statement
\* raises before its body runs.
SyncWithLockEnters == FALSE

\* EventBus._publish_to_queue: the oldest event is dropped from a queue that
\* holds max_queue_size, then the event is put.
publish_to_queue(queue, event) ==
    Append(IF Len(queue) >= DEFAULT_MAX_QUEUE_SIZE THEN Tail(queue) ELSE queue, event)

\* EventBus.publish(event)
publish(bus, event) ==
    IF ~SyncWithLockEnters THEN [bus EXCEPT !.raised = TRUE]
    ELSE [bus EXCEPT !.raised = FALSE,
                     !.queues = [q \in Queues |->
                         IF q \in bus.subscribers[event.event_type] \cup bus.global_subscribers
                         THEN publish_to_queue(bus.queues[q], event)
                         ELSE bus.queues[q]]]

\* EventBus.unsubscribe_all(queue)
unsubscribe_all(bus, queue) ==
    IF ~SyncWithLockEnters THEN [bus EXCEPT !.raised = TRUE]
    ELSE [bus EXCEPT !.raised = FALSE,
                     !.global_subscribers = @ \ {queue},
                     !.subscribers = [t \in EventTypes |-> @[t] \ {queue}]]

InitEventBus ==
    /\ router = DeadDevice
    /\ last_protocol = "none"
    /\ call = [op |-> "none", published |-> 0,
               bus |-> EventBus([t \in EventTypes |-> {}], {}, [q \in Queues |-> <<>>])]

\* await bus.subscribe(event_type, queue)
Subscribe ==
    \E t \in EventTypes, q \in Queues :
        /\ call' = [op |-> "subscribe", published |-> call.published,
                    bus |-> [call.bus EXCEPT !.subscribers[t] = @ \cup {q}, !.raised = FALSE]]
        /\ UNCHANGED <<router, last_protocol>>

\* await bus.subscribe_all(queue)
SubscribeAll ==
    \E q \in Queues :
        /\ call' = [op |-> "subscribe_all", published |-> call.published,
                    bus |-> [call.bus EXCEPT !.global_subscribers = @ \cup {q},
                                              !.raised = FALSE]]
        /\ UNCHANGED <<router, last_protocol>>

\* await bus.unsubscribe(event_type, queue)
Unsubscribe ==
    \E t \in EventTypes, q \in Queues :
        /\ call' = [op |-> "unsubscribe", published |-> call.published,
                    bus |-> [call.bus EXCEPT !.subscribers[t] = @ \ {q}, !.raised = FALSE]]
        /\ UNCHANGED <<router, last_protocol>>

\* bus.unsubscribe_all(queue)
UnsubscribeAll ==
    \E q \in Queues :
        /\ call' = [op |-> "unsubscribe_all", published |-> call.published,
                    bus |-> unsubscribe_all(call.bus, q)]
        /\ UNCHANGED <<router, last_protocol>>

\* await bus.publish(event), the event numbered by the calls of publish so far
Publish ==
    /\ call.published < MaxPublished
    /\ \E t \in EventTypes :
          call' = [op |-> "publish", published |-> call.published + 1,
                   event |-> [event_type |-> t, number |-> call.published + 1],
                   before |-> call.bus,
                   bus |-> publish(call.bus, [event_type |-> t,
                                              number |-> call.published + 1])]
    /\ UNCHANGED <<router, last_protocol>>

NextEventBus == Subscribe \/ SubscribeAll \/ Unsubscribe \/ UnsubscribeAll \/ Publish

SpecEventBus == InitEventBus /\ [][NextEventBus]_vars

-----------------------------------------------------------------------------
(* agents/base_agent.py: the life of one BaseAgent on an EventBus *)

MaxPuts == 2

\* BaseAgent.__init__ with the event types given to subscribe() before the
\* start ("all" after subscribe_all()); initialized, cleaned and handled count
\* the calls of initialize(), cleanup() and handle_event().
BaseAgent(subscribed_events) ==
    [running |-> FALSE, event_queue |-> "none", event_task |-> "none",
     subscribed_events |-> subscribed_events,
     initialized |-> 0, cleaned |-> 0, handled |-> 0, raised |-> FALSE]

\* BaseAgent._subscribe_to_events with the queue of this start
subscribe_to_events(agent, bus, queue) ==
    IF "all" \in agent.subscribed_events
    THEN [bus EXCEPT !.global_subscribers = @ \cup {queue}, !.raised = FALSE]
    ELSE [bus EXCEPT !.raised = FALSE,
                     !.subscribers = [t \in EventTypes |->
                         IF t \in agent.subscribed_events THEN @[t] \cup {queue} ELSE @[t]]]

\* BaseAgent.start: the n-th start of the agent creates the queue "q<n>".
start(agent, bus) ==
    IF agent.running THEN [agent |-> [agent EXCEPT !.raised = FALSE], bus |-> bus]
    ELSE [agent |-> [agent EXCEPT !.initialized = @ + 1,
                                  !.event_queue = "q" \o ToString(agent.initialized + 1),
                                  !.event_task = "running",
                                  !.running = TRUE, !.raised = FALSE],
          bus |-> subscribe_to_events(agent, bus, "q" \o ToString(agent.initialized + 1))]

\* BaseAgent.stop.  Line 126 awaits _unsubscribe_from_events, whose line 177
\* is `await self.event_bus.unsubscribe_all(queue)`: unsubscribe_all is a plain
\* method, so its call runs at once and either raises or returns None, and
\* awaiting None raises TypeError.  Either way stop leaves with the exception
\* before line 129, cleanup().
stop(agent, bus) ==
    IF ~agent.running THEN [agent |-> [agent EXCEPT !.raised = FALSE], bus |-> bus]
    ELSE [agent |-> [agent EXCEPT !.running = FALSE, !.event_task = "cancelled",
                                  !.raised = TRUE],
          bus |-> [unsubscribe_all(bus, agent.event_queue) EXCEPT !.raised = FALSE]]

InitAgent ==
    /\ router = DeadDevice
    /\ last_protocol = "none"
    /\ call \in {[op |-> "none", puts |-> 0, agent |-> BaseAgent(types),
                  bus |-> EventBus([t \in EventTypes |-> {}], {}, [q \in Queues |-> <<>>])] :
                    types \in {{"labels"}, {"labels", "connection"}, {"all"}, {"all", "labels"}}}

\* await agent.start()
Start ==
    /\ call.agent.initialized < MaxStarts
    /\ call' = [op |-> "start", puts |-> call.puts, before |-> call.agent,
                agent |-> start(call.agent, call.bus).agent,
                bus |-> start(call.agent, call.bus).bus]
    /\ UNCHANGED <<router, last_protocol>>

\* await agent.stop()
Stop ==
    /\ call' = [op |-> "stop", puts |-> call.puts, before |-> call.agent,
                agent |-> stop(call.agent, call.bus).agent,
                bus |-> stop(call.agent, call.bus).bus]
    /\ UNCHANGED <<router, last_protocol>>

\* An event is put on a queue the bus knows (queue.put, as in
\* _publish_to_queue).
PutEvent ==
    /\ call.puts < MaxPuts
    /\ \E q \in Queues, t \in EventTypes :
          /\ q \in call.bus.global_subscribers
                   \cup UNION {call.bus.subscribers[u] : u \in EventTypes}
          /\ call' = [op |-> "put", puts |-> call.puts + 1, before |-> call.agent,
                      agent |-> call.agent,
                      bus |-> [call.bus EXCEPT !.queues[q] =
                                  publish_to_queue(@, [event_type |-> t,
                                                       number |-> call.puts + 1])]]
    /\ UNCHANGED <<router, last_protocol>>

\* One turn of _process_events: the running task takes an event from the
\* queue of the agent and awaits handle_event(event).
ProcessEvent ==
    /\ call.agent.event_task = "running"
    /\ call.bus.queues[call.agent.event_queue] # <<>>
    /\ call' = [op |-> "handle_event", puts |-> call.puts, before |-> call.agent,
                agent |-> [call.agent EXCEPT !.handled = @ + 1],
                bus |-> [call.bus EXCEPT !.queues[call.agent.event_queue] = Tail(@)]]
    /\ UNCHANGED <<router, last_protocol>>

NextAgent == Start \/ Stop \/ PutEvent \/ ProcessEvent

SpecAgent == InitAgent /\ [][NextAgent]_vars

-----------------------------------------------------------------------------
(* The query of one port by RestClient.download_labels_individual *)

\* The documents of the parameter API: a name and a raw value, a raw value
\* alone, neither.
ParameterDocuments ==
    {Dict([value_name |-> Str("Cam1"), value |-> Str("1")]),
     Dict([value |-> Str("7")]),
     Dict(<<>>)}

\* The routers a port query can meet: the port answers at its first or second
\* endpoint with one of the replies of a download, or at its first endpoint
\* with a document of the parameter API.
QueryDevices ==
    {Device(mode, glitch, PortGets({x}, way, kind), {}, {}) :
        mode \in FailModes, glitch \in 0..MaxGlitch, x \in {<<"INPUT", 1>>, <<"OUTPUT", 32>>},
        way \in 1..2, kind \in PortReplyKinds \cup EmptyPortReplyKinds}
    \cup {Device(mode, 0, individual_endpoints(x[1], x[2])[1] :> HttpJson(doc), {}, {}) :
            mode \in FailModes, x \in {<<"INPUT", 1>>, <<"OUTPUT", 32>>},
            doc \in ParameterDocuments}
    \cup {Device(mode, 0, <<>>, {}, {}) : mode \in FailModes}

InitQuery ==
    /\ router \in QueryDevices
    /\ call \in {[op |-> "request", target |-> "query_label", type |-> x[1], port |-> x[2]] :
                    x \in {<<"INPUT", 1>>, <<"OUTPUT", 32>>}}
    /\ last_protocol = "none"

\* label = await self._query_input_label(port); labels[...].append(label or
\* the default of the port)
QueryPortLabel ==
    /\ call.op = "request" /\ call.target = "query_label"
    /\ call' = [op |-> "query_label", type |-> call.type, port |-> call.port,
                label |-> query_label(router, call.type, call.port),
                stored |-> StoreFetched(<<>>, query_label(router, call.type, call.port),
                                        IF call.type = "INPUT"
                                        THEN generate_input_label(call.port)
                                        ELSE generate_output_label(call.port))]
    /\ UNCHANGED <<router, last_protocol>>

NextQuery == QueryPortLabel

SpecQuery == InitQuery /\ [][NextQuery]_vars

-----------------------------------------------------------------------------
(* Properties of download_labels, checked under Spec *)

StageOrder == <<"rest_bulk", "rest_individual", "telnet", "default">>

\* The texts of a labels_dict, inputs then outputs.
DictTexts(labels_dict) == DictList(labels_dict, "inputs") \o DictList(labels_dict, "outputs")

\* The current_label of every label of a list, in order.
CurrentLabels(labels) == [i \in 1..Len(labels) |-> labels[i].current_label]

\* The port type and number of the i-th of the 64 labels of a KUMO download.
TypeAt(i) == IF i <= 32 THEN "INPUT" ELSE "OUTPUT"
PortAt(i) == IF i <= 32 THEN i ELSE i - 32

\* C1: whatever the REST bulk, REST individual and Telnet stages come to (no
\* answer, error status, malformed data, raised exception), download_labels
\* raises no exception and returns a non-empty list of labels.
DownloadNeverRaises ==
    call.op = "download" =>
        /\ ~call.result.raised
        /\ Len(call.result.labels) > 0
        /\ \A i \in 1..Len(call.result.labels) :
               /\ call.result.labels[i].current_label.t = "str"
               /\ call.result.labels[i].port_type \in PortTypes

\* C1 witness: an exception arose inside download_labels and the call still
\* returned the 64 generated labels.
DownloadRecoveredFromException ==
    /\ call.op = "download"
    /\ call.result.path = "except"
    /\ ~call.result.raised
    /\ Len(call.result.labels) = 64

\* C2: the stages are tried in the order REST bulk, REST individual, Telnet,
\* generated defaults; a stage is started only if every earlier stage produced
\* no labels; and the labels returned are those of the first stage that
\* produced any.
FirstProducingStageIsReturned ==
    call.op = "download" =>
        LET r == call.result
            n == Len(r.stages)
        IN /\ r.stages = SubSeq(StageOrder, 1, n)
           /\ \A i \in 1..(n - 1) : r.produced[r.stages[i]] = NoneV
           /\ r.produced[r.stages[n]] # NoneV
           /\ CurrentLabels(r.labels) = DictTexts(r.produced[r.stages[n]])

\* C3: when REST bulk, REST individual and Telnet all fail, download_labels
\* returns exactly 64 labels, INPUT 1..32 named "Input 1".."Input 32" and
\* OUTPUT 1..32 named "Output 1".."Output 32", none with a new_label, and
\* raises nothing.
AllStagesFailGivesDefaults ==
    (/\ call.op = "download"
     /\ \A st \in {"rest_bulk", "rest_individual", "telnet"} :
            st \in DOMAIN call.result.produced /\ call.result.produced[st] = NoneV)
    => /\ ~call.result.raised
       /\ call.result.labels =
              [i \in 1..64 |->
                  Label(PortAt(i), TypeAt(i),
                        Str((IF i <= 32 THEN "Input " ELSE "Output ") \o ToString(PortAt(i))),
                        NoneV)]

\* C3 witness: the three stages were started and none produced labels, the
\* Telnet one after its connection was established.
AllStagesFailed ==
    /\ call.op = "download"
    /\ call.result.stages = StageOrder
    /\ \A st \in {"rest_bulk", "rest_individual", "telnet"} : call.result.produced[st] = NoneV
    /\ router.connect = "ok"

\* No REST request of the router is answered.
RestUnreachable == DOMAIN router.dev.get = {}

\* The Telnet side answers every query in time with a quoted label.
TelnetAnswersEveryQuery ==
    /\ router.connect = "ok"
    /\ \A c \in 1..64 : router.queries[c] = TelnetAnswer("quoted", TypeAt(c), PortAt(c))

\* C4: when download_labels returns labels obtained from stage P, the recorded
\* last protocol is P afterwards; with REST unreachable and Telnet answering
\* every query, the 64 labels returned carry Telnet's values as current_label
\* and the recorded protocol is Telnet.
ServingProtocolIsRecorded ==
    call.op = "download" =>
        LET r == call.result IN
        /\ r.path = "try" => last_protocol = r.stages[Len(r.stages)]
        /\ (RestUnreachable /\ TelnetAnswersEveryQuery) =>
               /\ last_protocol = "telnet"
               /\ r.labels = [i \in 1..64 |->
                                 Label(PortAt(i), TypeAt(i),
                                       Str(TelnetLabelText(TypeAt(i), PortAt(i))), NoneV)]

\* C4 witness: a download served by Telnet after REST was unreachable.
TelnetServedDownload ==
    /\ call.op = "download"
    /\ RestUnreachable /\ TelnetAnswersEveryQuery
    /\ call.result.stages = <<"rest_bulk", "rest_individual", "telnet">>
    /\ last_protocol = "telnet"
    /\ call.result.labels[64].current_label = Str("Tel OUTPUT32")

\* The body a device hands to _make_request for a GET of endpoint, when
\* the single attempt of a port query is answered with status 200.
ServedBody(dev, endpoint) ==
    IF /\ dev.glitch = 0
       /\ endpoint \in DOMAIN dev.get
       /\ dev.get[endpoint].kind = "response" /\ dev.get[endpoint].status = 200
    THEN dev.get[endpoint].body ELSE NoneV

\* The endpoints of a port, by number, whose answer holds a label.
YieldingEndpoints(dev, port_type, port) ==
    {e \in 1..Len(individual_endpoints(port_type, port)) :
        LET body == ServedBody(dev, individual_endpoints(port_type, port)[e])
        IN Truthy(body) /\ Truthy(parse_individual_port(body))}

\* The label the fetches of a port yield, the default of the port when none
\* of them yields one.
FetchedOrDefault(dev, port_type, port) ==
    IF YieldingEndpoints(dev, port_type, port) = {}
    THEN Str(IF port_type = "INPUT" THEN generate_input_label(port)
             ELSE generate_output_label(port))
    ELSE parse_individual_port(
             ServedBody(dev, individual_endpoints(port_type, port)[
                                 Min(YieldingEndpoints(dev, port_type, port))]))

\* C14: download_labels_individual reports failure exactly when no per-port
\* fetch yielded a label; otherwise it returns 32 inputs and 32 outputs where
\* every failed or empty fetch holds the default of its port, and the
\* orchestrator does not go on to Telnet.
IndividualFailsOnlyWhenAllFail ==
    (call.op = "download" /\ "rest_individual" \in DOMAIN call.result.produced) =>
        LET got == call.result.produced["rest_individual"] IN
        /\ got = NoneV <=> \A x \in AllPorts : YieldingEndpoints(router.dev, x[1], x[2]) = {}
        /\ got # NoneV =>
              /\ DictList(got, "inputs") =
                    [p \in 1..32 |-> FetchedOrDefault(router.dev, "INPUT", p)]
              /\ DictList(got, "outputs") =
                    [p \in 1..32 |-> FetchedOrDefault(router.dev, "OUTPUT", p)]
              /\ call.result.stages = <<"rest_bulk", "rest_individual">>

\* C14 witness: the endpoint of input 1 alone answered, and the download came
\* back from the individual stage with that label and 63 defaults.
OnePortAnswered ==
    /\ call.op = "download"
    /\ call.result.stages = <<"rest_bulk", "rest_individual">>
    /\ {x \in AllPorts : YieldingEndpoints(router.dev, x[1], x[2]) # {}} = {<<"INPUT", 1>>}
    /\ call.result.labels[1].current_label # Str("Input 1")
    /\ call.result.labels[2].current_label = Str("Input 2")
    /\ call.result.labels[64].current_label = Str("Output 32")

\* The label the device's reply to query c carries: the quoted text of a
\* reply that arrived before the command's timeout, NoneV when the reply was
\* missing (silent, end of stream, late) or had no quoted text.
ReplyLabel(c) ==
    IF router.queries[c].kind = "reply"
    THEN parse_label_response(Strip(router.queries[c].text))
    ELSE NoneV

\* Entry n of the list of port_type in a dict of labels.
TelnetEntry(labels, c) ==
    IF c <= TELNET_PORT_COUNT THEN labels.d.inputs.seq[c]
    ELSE labels.d.outputs.seq[c - TELNET_PORT_COUNT]

\* C16: TelnetClient.download_labels reports failure if and only if no query
\* produced a parsable quoted label; otherwise it returns port_count input
\* and port_count output entries where entry n is the label parsed for port
\* n or, when the reply was missing or had no quoted text, the generated
\* default for port n.
TelnetEntriesFollowPorts ==
    (call.op = "download" /\ "telnet" \in DOMAIN call.result.produced
       /\ router.connect = "ok") =>
        LET got == call.result.produced["telnet"] IN
        /\ got = NoneV <=> \A c \in 1..(2 * TELNET_PORT_COUNT) : ~Truthy(ReplyLabel(c))
        /\ got # NoneV =>
             /\ Len(got.d.inputs.seq) = TELNET_PORT_COUNT
             /\ Len(got.d.outputs.seq) = TELNET_PORT_COUNT
             /\ \A c \in 1..(2 * TELNET_PORT_COUNT) :
                  TelnetEntry(got, c) =
                      IF Truthy(ReplyLabel(c)) THEN ReplyLabel(c)
                      ELSE Str(IF c <= TELNET_PORT_COUNT
                               THEN generate_input_label(PortAt(c))
                               ELSE generate_output_label(PortAt(c)))

\* C6: upload_labels attempts the upload first with the protocol recorded by
\* the last successful download, and starts with REST only when none is
\* recorded: after a download served by Telnet the upload is first sent over
\* Telnet.
UploadStartsWithRecordedProtocol ==
    (call.op = "upload" /\ call.result.connections # <<>>) =>
        call.result.connections[1] =
            (IF last_protocol = "telnet" THEN "telnet" ELSE "rest")

-----------------------------------------------------------------------------
(* Properties of the uploads, checked under SpecUpload *)

\* new_label is present and differs from current_label.
Pending(label) == label.new_label.t # "none" /\ label.new_label.s # label.current_label.s

\* The submitted labels with pending changes, in order.
PendingLabels == SelectSeq(call.labels, Pending)

\* C5: every call of upload_labels returns its triple without raising, and
\* whatever the REST and Telnet attempts come to, success_count + error_count
\* is the number of submitted labels that have pending changes.
UploadCountsSumToChanged ==
    call.op = "upload_labels" =>
        /\ ~call.result.raised
        /\ call.result.success_count \in Nat /\ call.result.error_count \in Nat
        /\ call.result.success_count + call.result.error_count = Len(PendingLabels)

\* C5 witness: REST took some labels and refused others, and the counts of
\* the REST attempt were returned.
UploadPartlyFailed ==
    /\ call.op = "upload_labels"
    /\ call.result.connections = <<"rest">>
    /\ call.result.success_count = 2 /\ call.result.error_count = 1

IsAttempt(entry) == entry.method \in {"PUT", "LABEL"}
SameItem(entry, item) ==
    entry.port = item.port /\ entry.type = item.type /\ entry.label = item.label

\* C7: upload_labels_batch of the REST and of the Telnet client attempts every
\* submitted item, in list order, even after earlier items failed; a failing
\* item is counted in error_count and adds its message, nothing more.
BatchAttemptsEveryItem ==
    (call.op \in {"rest_batch", "telnet_batch"} /\ call.cb_raise_at = 0) =>
        LET attempts == SelectSeq(call.result.log, IsAttempt) IN
        /\ ~call.result.raised
        /\ Len(attempts) = Len(call.labels)
        /\ \A i \in 1..Len(attempts) : SameItem(attempts[i], call.labels[i])
        /\ call.result.success_count + call.result.error_count = Len(call.labels)
        /\ Len(call.result.error_messages) = call.result.error_count

\* C7 witness: the first of three items failed over REST and the two after it
\* were attempted and succeeded.
BatchContinuedAfterFailure ==
    /\ call.op = "rest_batch" /\ call.cb_raise_at = 0
    /\ Len(call.labels) = 3
    /\ ~rest_upload_label(router.dev, call.labels[1]).success
    /\ call.result.success_count = 2 /\ call.result.error_count = 1

\* The items the Telnet side leaves without a response.
TelnetFailures(n) ==
    {i \in 1..n : SessionFrom(router.sets, 1, <<>>)[i] = NoneV}

\* What upload_labels returned is n - k successes, k errors and k messages.
Returned(n, k) ==
    /\ call.result.success_count = n - k
    /\ call.result.error_count = k
    /\ Len(call.result.error_messages) = k

\* The number of changed labels that failed at transport level in the call of
\* upload_labels: those REST refused when it took any, else those Telnet left
\* unanswered, and all of them when Telnet could not be reached either.
TransportFailures ==
    LET items == ChangedItems(call.labels)
        n == Len(items)
        rest == Cardinality({i \in 1..n : ~rest_upload_label(router.dev, items[i]).success})
    IN IF rest < n THEN rest
       ELSE IF router.connect = "ok" THEN Cardinality(TelnetFailures(n))
       ELSE n

OnlyChangedLabelsSent ==
    call.op \in {"upload_labels", "upload_videohub_labels"} =>
        /\ \A e \in 1..Len(call.result.log) :
               \E i \in 1..Len(call.labels) :
                   /\ Pending(call.labels[i])
                   /\ call.result.log[e].port = call.labels[i].port_number
                   /\ call.result.log[e].type = call.labels[i].port_type
                   /\ call.result.log[e].label = call.labels[i].new_label.s
        /\ PendingLabels = <<>> =>
               /\ call.result.success_count = 0 /\ call.result.error_count = 0
               /\ call.result.error_messages = <<>>
               /\ call.result.connections = <<>>
               /\ call.result.log = <<>>

\* C9 witness: of three labels given to the Videohub upload one had pending
\* changes, and it alone was written.
VideohubSentOnlyChanged ==
    /\ call.op = "upload_videohub_labels"
    /\ Len(call.labels) = 3 /\ Len(PendingLabels) = 1
    /\ Len(call.result.log) = 1
    /\ call.result.success_count = 1

\* The cap of the protocol an upload goes over.
LabelCap(op) ==
    CASE op = "upload_labels" -> KUMO_MAX_LABEL_LENGTH
      [] op = "upload_videohub_labels" -> VIDEOHUB_MAX_LABEL_LENGTH
      [] OTHER -> LIGHTWARE_MAX_LABEL_LENGTH

\* The text submitted for item i of a call.
SubmittedText(i) ==
    IF call.op = "upload_lightware_label" THEN call.labels[i].label
    ELSE IF call.labels[i].new_label.t = "str" THEN call.labels[i].new_label.s ELSE ""

\* C11: a label longer than the cap of the protocol in use is rejected before
\* any network call: nothing that carries the label, whole or truncated, is
\* written to the device.
OverlongLabelNeverSent ==
    call.op \in {"upload_labels", "upload_videohub_labels", "upload_lightware_label"} =>
        \A i \in 1..Len(call.labels) :
            Len(SubmittedText(i)) > LabelCap(call.op) =>
                \A e \in 1..Len(call.result.log) :
                    \/ call.result.log[e].label = ""
                    \/ call.result.log[e].label
                           # Take(SubmittedText(i), Len(call.result.log[e].label))

\* The Videohub upload got past the connect and the drain of the dump.
HubReached ==
    call.op = "upload_videohub_labels" /\ router.connect = "ok" /\ router.drain = "ok"

\* The number of labels with pending changes that go into block b.
PendingOf(b) ==
    Cardinality({i \in 1..Len(call.labels) :
                    Pending(call.labels[i]) /\ call.labels[i].port_type \o " LABELS" = b})

OtherBlock(b) == IF b = "INPUT LABELS" THEN "OUTPUT LABELS" ELSE "INPUT LABELS"

\* Block b was sent and the wait for its acknowledgement ended with this text.
RepliedTo(b) == HubReached /\ PendingOf(b) > 0 /\ router.acks[b].kind = "text"

\* All labels of block b are among the succeeded / among the failed ones.
BlockSucceeded(b) ==
    /\ call.result.success_count >= PendingOf(b)
    /\ call.result.error_count <= PendingOf(OtherBlock(b))

BlockFailed(b) ==
    /\ call.result.error_count >= PendingOf(b)
    /\ call.result.success_count <= PendingOf(OtherBlock(b))

ReportedMessage(msg) ==
    \E k \in 1..Len(call.result.error_messages) : call.result.error_messages[k] = msg

\* C18: in upload_videohub_labels a block whose reply contains ACK counts all
\* labels of that block as succeeded, a reply containing NAK counts all of
\* them as failed as a unit, and an empty reply (timeout) counts all of them
\* as failed.
BlockReplyDecidesItsLabels ==
    \A b \in BlockNames :
        RepliedTo(b) =>
            CASE Contains(router.acks[b].text, "ACK") ->
                   /\ BlockSucceeded(b)
                   /\ \A k \in 1..Len(call.result.error_messages) :
                          ~StartsWith(call.result.error_messages[k], b)
              [] Contains(router.acks[b].text, "NAK") ->
                   /\ BlockFailed(b)
                   /\ ReportedMessage(b \o ": device returned NAK (not acknowledged)")
              [] router.acks[b].text = "" ->
                   /\ BlockFailed(b)
                   /\ ReportedMessage(b \o ": no response from device (timeout)")
              [] OTHER -> TRUE

\* C18 witness: two input labels were acknowledged with ACK and one output
\* label was refused with NAK.
InputsAckedOutputNaked ==
    /\ RepliedTo("INPUT LABELS") /\ RepliedTo("OUTPUT LABELS")
    /\ router.acks["INPUT LABELS"].text = "ACK\n\n"
    /\ router.acks["OUTPUT LABELS"].text = "NAK\n\n"
    /\ PendingOf("INPUT LABELS") = 2 /\ PendingOf("OUTPUT LABELS") = 1
    /\ call.result.success_count = 2 /\ call.result.error_count = 1

\* C19: a non-empty reply to a Videohub upload block that contains neither
\* ACK nor NAK is treated as ambiguous success: all labels of that block are
\* counted in success_count, not in error_count.
AmbiguousReplyCountsAsSuccess ==
    \A b \in BlockNames :
        (/\ RepliedTo(b)
         /\ Strip(router.acks[b].text) # ""
         /\ ~Contains(Upper(router.acks[b].text), "ACK")
         /\ ~Contains(Upper(router.acks[b].text), "NAK"))
        => BlockSucceeded(b)

\* Block b was put on the socket, or sendall was called for it and raised.
BlockAttempted(b) ==
    \/ \E e \in 1..Len(call.result.log) : call.result.log[e].method = b
    \/ ReportedMessage("Send error for " \o b)

\* The labels of block b that its acknowledgement made succeed.
AckedOf(b) ==
    IF router.acks[b].kind = "text" /\ Contains(Upper(Strip(router.acks[b].text)), "ACK")
    THEN PendingOf(b) ELSE 0

\* C20: upload_videohub_labels sends and acknowledges the INPUT LABELS and
\* OUTPUT LABELS blocks independently: a send error, NAK or timeout on the
\* input block does not prevent the output block from being sent, a block is
\* sent only for a type with at least one changed label, and the returned
\* counts are the sums over both blocks (success_count + error_count = number
\* of changed labels).
BlocksAreIndependent ==
    call.op = "upload_videohub_labels" =>
        /\ call.result.success_count + call.result.error_count = Len(PendingLabels)
        /\ HubReached =>
             /\ \A b \in BlockNames : BlockAttempted(b) <=> PendingOf(b) > 0
             /\ call.result.success_count = AckedOf("INPUT LABELS") + AckedOf("OUTPUT LABELS")

\* C20 witness: the input block could not be sent, the output block was sent
\* all the same and acknowledged.
OutputSentAfterInputFailed ==
    /\ HubReached
    /\ PendingOf("INPUT LABELS") > 0 /\ PendingOf("OUTPUT LABELS") > 0
    /\ router.acks["INPUT LABELS"].kind = "send_error"
    /\ router.acks["OUTPUT LABELS"] = BlockAck("text", "ACK\n\n")
    /\ \E e \in 1..Len(call.result.log) : call.result.log[e].method = "OUTPUT LABELS"
    /\ call.result.success_count = PendingOf("OUTPUT LABELS")
    /\ call.result.error_count = PendingOf("INPUT LABELS")

-----------------------------------------------------------------------------
(* Properties of has_changes, checked under SpecLabel *)

\* C10: has_changes() is true exactly when new_label is present and differs
\* from current_label, empty strings included: '' over '' is no change, ''
\* over a non-empty current_label is a change, an absent new_label never is.
HasChangesIffPresentAndDifferent ==
    call.op = "has_changes" =>
        /\ call.result <=> (call.label.new_label.t # "none"
                            /\ call.label.new_label.s # call.label.current_label.s)
        /\ (call.label.new_label = Str("") /\ call.label.current_label = Str(""))
               => ~call.result
        /\ (call.label.new_label = Str("") /\ call.label.current_label # Str(""))
               => call.result
        /\ call.label.new_label = NoneV => ~call.result

\* C10 witness: a RouterLabel whose new_label is '' over a non-empty
\* current_label has changes.
EmptyNewLabelIsChange ==
    /\ call.op = "has_changes" /\ call.class = "RouterLabel"
    /\ call.label.new_label = Str("") /\ call.label.current_label = Str("Cam 1")
    /\ call.result


-----------------------------------------------------------------------------
(* Properties of _make_request, checked under SpecRequest *)

\* What attempt number a (from 0) of the request of the call comes to.
AttemptOf(a) == AttemptOutcome(router, call.method, call.endpoint, call.json_data, a)

\* The attempts, of those the call may make, that are answered with status
\* 200 and a body that could be read.
AnsweredAttempts ==
    {a \in 0..(call.retries - 1) : AttemptOf(a).kind = "response" /\ AttemptOf(a).status = 200}

\* C12: _make_request makes at most `retries` attempts and stops at the first
\* one answered with status 200; a non-200 status, a timeout or a transport
\* error is a failed attempt, and after the last failed attempt the call
\* returns (False, None): a pair is returned in every case.
RequestStopsAtFirstAnswer ==
    call.op = "make_request" =>
        /\ call.result.attempts <= call.retries
        /\ IF AnsweredAttempts # {}
           THEN /\ call.result.success
                /\ call.result.attempts = Min(AnsweredAttempts) + 1
                /\ call.result.data = AttemptOf(Min(AnsweredAttempts)).body
           ELSE /\ ~call.result.success
                /\ call.result.data = NoneV
                /\ call.result.attempts = call.retries

\* C12 witness: a request of three attempts lost one to a timeout and two to
\* status 404, and failure was returned.
RequestExhaustedAttempts ==
    /\ call.op = "make_request" /\ call.retries = MAX_RETRIES
    /\ router.glitch = 1 /\ router.mode = "http_error"
    /\ ~call.result.success /\ call.result.attempts = MAX_RETRIES

\* The attempts of the call that failed and were followed by another.
RetriedAttempts ==
    IF call.result.success THEN call.result.attempts - 1
    ELSE IF call.retries = 0 THEN 0 ELSE call.retries - 1

\* base * multiplier^i, counted as the functions from 1..i to 1..multiplier.
BackoffDelay(i) ==
    RETRY_BACKOFF_BASE * Cardinality([1..i -> 1..RETRY_BACKOFF_MULTIPLIER])

\* C13: the wait after failed attempt i (from 0) is RETRY_BACKOFF_BASE *
\* RETRY_BACKOFF_MULTIPLIER^i seconds, 1 s then 2 s for three attempts, and
\* no wait follows the last attempt.
BackoffIsExponential ==
    call.op = "make_request" =>
        /\ call.result.sleeps = [i \in 1..RetriedAttempts |-> BackoffDelay(i - 1)]
        /\ (call.retries = 3 /\ ~call.result.success) => call.result.sleeps = <<1, 2>>

\* C13 witness: three attempts failed, with waits of 1 s and 2 s between them.
RequestWaitedTwice ==
    /\ call.op = "make_request" /\ call.retries = 3 /\ ~call.result.success
    /\ call.result.sleeps = <<1, 2>>


-----------------------------------------------------------------------------
(* Properties of the request loops, checked under SpecPool *)

\* The requests the REST client lets be in flight at once.
MAX_IN_FLIGHT == 1

\* C15: the per-port fetches and the uploads of RestClient never have more
\* than the concurrency bound of requests in flight, each port's result is
\* written once, into the slot of its own port, and entry i of the returned
\* lists belongs to port i+1 (counting entries from 0).
SlotsFollowPorts ==
    /\ call.op \in {"individual", "batch"} => call.in_flight <= MAX_IN_FLIGHT
    /\ call.op \in {"individual", "individual_done"} =>
          /\ \A i, j \in 1..Len(call.written) :
                 call.written[i][1] = call.written[j][1]
                 /\ call.written[i][2] = call.written[j][2] => i = j
          /\ \A i \in 1..Len(call.written) : call.written[i][3] = call.written[i][2]
    /\ call.op = "individual" =>
          /\ call.inputs = [p \in 1..Len(call.inputs) |->
                               FetchedOrDefault(router, "INPUT", p)]
          /\ call.outputs = [p \in 1..Len(call.outputs) |->
                                FetchedOrDefault(router, "OUTPUT", p)]
    /\ call.op = "individual_done" =>
          /\ Len(call.written) = 2 * REST_PORTS
          /\ call.result = download_labels_individual(router)
    /\ call.op = "batch_done" =>
          call.result = rest_upload_labels_batch(router, call.labels, 0)

\* C15 witness: a download of which two ports answered has written its 64
\* slots, and the label of input 2 is entry 2 of the inputs.
TwoPortsInTheirSlots ==
    /\ call.op = "individual_done"
    /\ call.result.labels # NoneV
    /\ DictList(call.result.labels, "inputs")[2] = Str("Src INPUT2")
    /\ DictList(call.result.labels, "inputs")[1] = Str("Input 1")
    /\ DictList(call.result.labels, "outputs")[1] = Str("Src OUTPUT1")

-----------------------------------------------------------------------------
(* Properties of _parse_videohub_dump, checked under SpecDump *)

\* The indices the entries of a label block report.
ReportedIndices(entries) ==
    {ParseInt(IndexPart(entries[k])).n :
        k \in {j \in 1..Len(entries) : ParseInt(IndexPart(entries[j])).ok}}

\* The text of the last entry that reports index idx.
ReportedText(entries, idx) ==
    LabelPart(entries[Max({k \in 1..Len(entries) :
                              /\ ParseInt(IndexPart(entries[k])).ok
                              /\ ParseInt(IndexPart(entries[k])).n = idx})])

\* The count the device block declares (0 when it declares none that int
\* reads).
DeclaredCount(declared) ==
    IF declared # <<>> /\ ParseInt(AfterColon(declared[1])).ok
    THEN ParseInt(AfterColon(declared[1])).n ELSE 0

\* The array the claim describes: the declared count of defaults, grown to
\* the highest reported index, overwritten at the reported indices.
IndexAddressed(prefix, count, entries) ==
    [i \in 1..Max({count} \cup {idx + 1 : idx \in ReportedIndices(entries)}) |->
        IF i - 1 \in ReportedIndices(entries) THEN ReportedText(entries, i - 1)
        ELSE prefix \o " " \o ToString(i)]

\* C17: _parse_videohub_dump returns label arrays pre-filled with defaults
\* for the declared count, overwritten at every index the device reported
\* and grown when a reported index lies beyond the declared count; indices
\* never reported keep 'Input n+1' / 'Output n+1'.
DumpLabelsAreIndexAddressed ==
    call.op = "parse_videohub_dump" =>
        /\ call.result.input_labels
             = IndexAddressed("Input", DeclaredCount(router.declared), router.input_entries)
        /\ call.result.output_labels = IndexAddressed("Output", 2, router.output_entries)

-----------------------------------------------------------------------------
(* Properties of the Lightware connections, checked under SpecLw3 *)

\* The request id the k-th command of the connection was framed with.
FramedId(k) == DigitsValue(SubSeq(call.sent[k], 1, 4))

\* What the k-th command of the connection met on the socket.
WireOfCommand(k) ==
    Lw3WireOf(router.kinds[call.issued - Len(call.sent) + k], FramedId(k),
              Lw3Commands(call.caller)[k])

\* The lines received for the k-th command, and among them the opening lines
\* of its own block and the closing lines after the first of these.
ReceivedLines(k) == Lw3Lines(WireOfCommand(k).data)

OwnOpenings(k) ==
    {j \in 1..Len(ReceivedLines(k)) :
        StartsWith(ReceivedLines(k)[j], "{" \o SubSeq(call.sent[k], 1, 4))}

OwnClosings(k) ==
    {j \in 1..Len(ReceivedLines(k)) :
        j > Min(OwnOpenings(k)) /\ Strip(ReceivedLines(k)[j]) = "}"}

\* C21: _lw3_send_command returns exactly the lines strictly between the
\* opening line carrying its own request id and the closing '}' line; lines
\* of a block with another id are ignored, and when no block with its id
\* arrives before the deadline the result is empty and no exception is
\* raised.
OnlyOwnBlockIsReturned ==
    call.op \in {"open", "closed"} =>
        \A k \in 1..Len(call.sent) :
            WireOfCommand(k).send = "ok" =>
                /\ call.replies[k].kind = "lines"
                /\ OwnOpenings(k) = {} => call.replies[k].lines = <<>>
                /\ (OwnOpenings(k) # {} /\ OwnClosings(k) # {}) =>
                       call.replies[k].lines
                           = SubSeq(ReceivedLines(k), Min(OwnOpenings(k)) + 1,
                                    Min(OwnClosings(k)) - 1)

\* C21 witness: the block of another request arrived before the block of the
\* request, and the lines of the second alone were returned.
StaleBlockWasSkipped ==
    /\ call.op = "open" /\ call.caller = "connect_lightware" /\ Len(call.sent) = 1
    /\ router.kinds[call.issued] = "stale_first"
    /\ Len(ReceivedLines(1)) = 6
    /\ call.replies[1].lines = <<"pr /.ProductName=MX2-8x8-HDMI20">>

\* C22: on one Lightware connection the request id starts at 1 and increases
\* by exactly one with every command issued, so the k-th command carries id
\* k, also after a command whose send or read failed; every new connection
\* starts again at 1.
RequestIdsCountCommands ==
    call.op \in {"open", "closed"} =>
        /\ \A k \in 1..Len(call.sent) : StartsWith(call.sent[k], ZeroPad4(k) \o "#")
        /\ call.op = "open" => call.send_id = Len(call.sent) + 1

\* C22 witness: the second connection to a device, whose first command got no
\* answer, has issued its four commands with the ids 1 to 4.
SecondConnectionCountsFromOne ==
    /\ call.conn = 2 /\ call.caller = "connect_lightware" /\ call.issued = 5
    /\ router.kinds[2] = "silent"
    /\ [k \in 1..4 |-> SubSeq(call.sent[k], 1, 5)] = <<"0001#", "0002#", "0003#", "0004#">>

\* A line that begins with an error-prefix marker.
ErrorLine(line) == StartsWith(line, "pE") \/ StartsWith(line, "nE") \/ StartsWith(line, "-E")

\* C23: upload_lightware_label returns failure when any returned line begins
\* with an error-prefix marker (pE, nE, -E) or when no line was returned, and
\* success for every other non-empty response, whatever its text; each call
\* uses its own fresh connection, so one label's failure does not affect
\* another's.
SetSucceedsOnCleanReply ==
    (call.op = "closed" /\ call.caller = "upload_lightware_label") =>
        IF router.connect # "ok" THEN ~call.result.ok /\ call.sent = <<>>
        ELSE /\ Len(call.sent) = 1 /\ StartsWith(call.sent[1], "0001#SET ")
             /\ call.result.ok <=>
                    /\ call.replies[1].lines # <<>>
                    /\ \A i \in 1..Len(call.replies[1].lines) :
                           ~ErrorLine(call.replies[1].lines[i])

\* C23 witness: a SET answered with an error line after its echo failed, and
\* the SET on the next connection succeeded.
SetSucceededAfterFailedSet ==
    /\ call.op = "closed" /\ call.caller = "upload_lightware_label"
    /\ call.conn = 2 /\ call.issued = 2
    /\ router.kinds[1] = "late_error" /\ router.kinds[2] = "block"
    /\ call.result.ok

-----------------------------------------------------------------------------
(* Properties of detect_router_type, checked under SpecDetect *)

\* The bytes the Lightware port delivered until the read ended: all chunks up
\* to the first one that completes a "}".
RECURSIVE ReplyUpTo(_, _)
ReplyUpTo(chunks, n) ==
    IF n = 0 THEN ""
    ELSE IF Contains(ReplyUpTo(chunks, n - 1), "}") THEN ReplyUpTo(chunks, n - 1)
    ELSE ReplyUpTo(chunks, n - 1) \o chunks[n]

LightwareReply ==
    IF router.lw.connect = "ok" /\ router.lw.send = "ok"
    THEN ReplyUpTo(router.lw.chunks, Len(router.lw.chunks)) ELSE ""

\* The read of the Lightware reply was cut by a socket error.
LightwareReadFailed ==
    /\ router.lw.connect = "ok" /\ router.lw.send = "ok"
    /\ router.lw.ending = "oserror" /\ ~Contains(LightwareReply, "}")

VideohubFirstLine ==
    IF router.vh.connect = "ok" /\ router.vh.readline = "ok" THEN router.vh.first_line ELSE ""

\* The value detect_router_type returns when `marked` says whether the
\* Lightware reply counts as carrying the marker.
DetectsInOrder(marked) ==
    call.op = "detect_router_type" =>
        /\ call.result.type \in {"lightware", "videohub", "kumo"}
        /\ call.result.probed[1] = LIGHTWARE_PORT
        /\ IF marked
           THEN call.result.type = "lightware" /\ call.result.probed = <<LIGHTWARE_PORT>>
           ELSE /\ call.result.probed = <<LIGHTWARE_PORT, VIDEOHUB_PORT>>
                /\ call.result.type = IF Contains(VideohubFirstLine, "PROTOCOL PREAMBLE")
                                      THEN "videohub" ELSE "kumo"

\* C24 as stated: detect_router_type probes Lightware, then Videohub; it
\* returns 'lightware' whenever the Lightware reply contains the ProductName
\* marker (without probing Videohub), otherwise 'videohub' when the first
\* line received from the Videohub port is the PROTOCOL PREAMBLE marker,
\* otherwise 'kumo'; always one of the three values.
DetectsLightwareWheneverMarked == DetectsInOrder(Contains(LightwareReply, "ProductName"))

\* C24, amended: the same, where a Lightware reply whose read was cut by a
\* socket error counts as no reply.
DetectsLightwareWhenReplyWasRead ==
    DetectsInOrder(Contains(LightwareReply, "ProductName") /\ ~LightwareReadFailed)

\* C24 witness: the Lightware port answered without the marker and the
\* Videohub port sent its preamble.
VideohubFoundAfterLightware ==
    /\ call.op = "detect_router_type"
    /\ router.lw.chunks = <<"{0001\r\nnE %E002\r\n}\r\n">>
    /\ router.vh.first_line = "PROTOCOL PREAMBLE:\n"
    /\ call.result = [type |-> "videohub", probed |-> <<LIGHTWARE_PORT, VIDEOHUB_PORT>>]

-----------------------------------------------------------------------------
(* Properties of the port-count detection, checked under SpecStatus *)

\* The probe of an input port succeeds: one of its endpoints serves a name.
ProbeSucceeds(port) == YieldingEndpoints(router, "INPUT", port) # {}

\* C25: the port-count detection returns 64 when the probe of port 33
\* succeeds, otherwise 32 when the probe of port 17 succeeds, otherwise 16.
PortCountFollowsProbes ==
    call.op = "detect_port_count" =>
        call.result = (CASE ProbeSucceeds(33) -> 64
                         [] ProbeSucceeds(17) -> 32
                         [] OTHER -> 16)

\* C25 witness: sources 17 and 33 both answer and 64 is returned.
BothProbesAnswered ==
    /\ call.op = "detect_port_count"
    /\ ProbeSucceeds(17) /\ ProbeSucceeds(33)
    /\ call.result = 64

-----------------------------------------------------------------------------
(* Properties of the query of one port, checked under SpecQuery *)

\* The document of the parameter API the first endpoint of the queried port
\* serves, when it is the only endpoint of the port that answers.
ParameterDocument ==
    LET endpoints == individual_endpoints(call.type, call.port) IN
    IF /\ ServedBody(router, endpoints[1]) \in ParameterDocuments
       /\ ServedBody(router, endpoints[2]) = NoneV
    THEN ServedBody(router, endpoints[1]) ELSE NoneV

\* value_name when present, otherwise value, otherwise absent
ParameterValue(doc) ==
    IF "value_name" \in DOMAIN doc.d THEN Str(PyStr(doc.d["value_name"]))
    ELSE IF "value" \in DOMAIN doc.d THEN Str(PyStr(doc.d["value"]))
    ELSE NoneV

\* C26: parsing a per-port parameter-API response returns value_name when it
\* is present, otherwise value, otherwise absent; an absent result is treated
\* as 'no label' and filled with the default, not as a hard error.
ParameterResponseIsParsed ==
    (call.op = "query_label" /\ ParameterDocument # NoneV) =>
        /\ call.label = ParameterValue(ParameterDocument)
        /\ call.stored = <<IF ParameterValue(ParameterDocument) = NoneV
                           THEN Str(IF call.type = "INPUT"
                                    THEN generate_input_label(call.port)
                                    ELSE generate_output_label(call.port))
                           ELSE ParameterValue(ParameterDocument)>>

-----------------------------------------------------------------------------
(* Properties of an agent with an event bus, checked under SpecBus *)

\* C27: every completed download_labels on an agent with an event bus
\* publishes one LabelsEvent carrying the returned labels and naming the
\* protocol, and test_connection publishes a ConnectionEvent on success and
\* on failure.
AgentPublishesItsEvents ==
    call.event_bus =>
        /\ (call.op = "download" /\ ~call.result.raised) =>
              /\ Len(call.published) = 1
              /\ call.published[1].event_type = "labels"
              /\ call.published[1].labels
                    = [i \in 1..Len(call.result.labels) |-> to_dict(call.result.labels[i])]
              /\ call.result.path = "try" =>
                    call.published[1].metadata = [protocol |-> call.result.last_protocol]
        /\ call.op = "test_connection" =>
              /\ Len(call.published) = 1
              /\ call.published[1].event_type = "connection"
              /\ call.published[1].connected = call.result.connected

-----------------------------------------------------------------------------
(* Properties of the files of ExcelHandler, checked under SpecExcel *)

PortsOf(ports) ==
    {<<ports[i].port, ports[i].type, ports[i].current_label>> : i \in 1..Len(ports)}

\* The file as write_excel left it has been read back.
ReadBackUnedited == call.op = "read_excel" /\ call.edited = <<>>

\* C28: for every FileData without pending changes, reading back the file
\* written by write_excel returns the same ports: as many entries, the same
\* (port, type, current_label) for each, new_label None for each, and no entry
\* made of the OUTPUTS separator row.
RoundTripPreservesPorts ==
    (ReadBackUnedited /\ \A i \in 1..Len(call.data) : call.data[i].new_label = NoneV) =>
        /\ ~call.loaded.raised
        /\ Len(call.loaded.ports) = Len(call.data)
        /\ PortsOf(call.loaded.ports) = PortsOf(call.data)
        /\ \A i \in 1..Len(call.loaded.ports) : call.loaded.ports[i].new_label = NoneV

\* The same, for the labels that no spreadsheet takes for a formula.
RoundTripPreservesPlainPorts ==
    (\A i \in 1..Len(call.data) : call.data[i].current_label # "=A1")
        => RoundTripPreservesPorts

\* The rows of a worksheet that hold a port, and the place of row r among them.
DataRows(sheet) == SelectSeq(sheet, LAMBDA row : row[1].t = "int")
DataRowIndex(sheet, r) == Cardinality({q \in 1..r : sheet[q][1].t = "int"})

\* The text of a cell: nothing for an empty cell.
CellText(cell) == IF cell = NoneV THEN "" ELSE PyStr(cell)

\* C29: read_excel yields for each row new_label = the trimmed text of the
\* New_Label cell when it is non-blank and None when the cell is empty or
\* whitespace-only; editing the New_Label cell of one row changes only that
\* row's new_label and leaves every current_label and every other row's
\* new_label unchanged.
NewLabelFollowsItsCell ==
    (call.op = "read_excel" /\ ~call.loaded.raised) =>
        /\ Len(call.loaded.ports) = Len(DataRows(call.sheet))
        /\ \A i \in 1..Len(call.loaded.ports) :
              call.loaded.ports[i].new_label
                  = IF Strip(CellText(DataRows(call.sheet)[i][4])) = "" THEN NoneV
                    ELSE Str(Strip(CellText(DataRows(call.sheet)[i][4])))
        /\ \A e \in 1..Len(call.edited) :
              /\ Len(call.loaded.ports) = Len(read_excel(call.written).ports)
              /\ \A i \in 1..Len(call.loaded.ports) :
                    /\ call.loaded.ports[i].current_label
                          = read_excel(call.written).ports[i].current_label
                    /\ i # DataRowIndex(call.sheet, call.edited[e]) =>
                          call.loaded.ports[i].new_label
                              = read_excel(call.written).ports[i].new_label

\* A file of two ports was read after its user typed a padded name into one
\* row: that row has the trimmed name, the other row no new label.
EditedRowWasRead ==
    /\ call.op = "read_excel" /\ call.edited # <<>> /\ Len(call.loaded.ports) = 2
    /\ call.sheet[call.edited[1]][4] = Str("  Cam 2 ")
    /\ call.loaded.ports[DataRowIndex(call.sheet, call.edited[1])].new_label = Str("Cam 2")
    /\ \E i \in 1..2 : call.loaded.ports[i].new_label = NoneV

-----------------------------------------------------------------------------
(* Properties of the EventBus, checked under SpecEventBus *)

\* C30: publish puts the event exactly once on the queue of every subscriber
\* of the event's type and of every global subscriber (once even for a queue
\* subscribed both ways), and on no queue that is not subscribed, or was
\* unsubscribed, at publish time.
PublishReachesSubscribersOnce ==
    call.op = "publish" =>
        \A q \in Queues :
            call.bus.queues[q]
                = IF q \in call.before.subscribers[call.event.event_type]
                           \cup call.before.global_subscribers
                  THEN Append(call.before.queues[q], call.event)
                  ELSE call.before.queues[q]

\* The unsubscribed queues, at least, receive nothing.
PublishSparesTheUnsubscribed ==
    call.op = "publish" =>
        \A q \in Queues :
            q \notin call.before.subscribers[call.event.event_type]
                         \cup call.before.global_subscribers
                => call.bus.queues[q] = call.before.queues[q]

-----------------------------------------------------------------------------
(* Properties of a BaseAgent, checked under SpecAgent *)

\* The queues the bus delivers to.
SubscribedQueues ==
    call.bus.global_subscribers \cup UNION {call.bus.subscribers[t] : t \in EventTypes}

\* C31: stop on a running agent stops the event processing task, unsubscribes
\* the agent's queue from the event bus and then runs cleanup() exactly once;
\* afterwards is_running() is false.  start on a running agent and stop on a
\* non-running agent change nothing.
StopUnsubscribesAndCleansUp ==
    /\ (call.op = "stop" /\ call.before.running) =>
          /\ ~call.agent.running
          /\ call.agent.event_task # "running"
          /\ call.agent.event_queue \notin SubscribedQueues
          /\ call.agent.cleaned = call.before.cleaned + 1
          /\ ~call.agent.raised
    /\ (call.op = "stop" /\ ~call.before.running) => call.agent = call.before
    /\ (call.op = "start" /\ call.before.running) => call.agent = call.before

\* What does hold of stop: the agent is no longer running and its task is
\* cancelled; stop and start on an agent in the other state change nothing.
StopEndsTheTask ==
    /\ (call.op = "stop" /\ call.before.running) =>
          ~call.agent.running /\ call.agent.event_task = "cancelled"
    /\ (call.op = "stop" /\ ~call.before.running) =>
          [call.agent EXCEPT !.raised = FALSE] = [call.before EXCEPT !.raised = FALSE]
    /\ (call.op = "start" /\ call.before.running) =>
          [call.agent EXCEPT !.raised = FALSE] = [call.before EXCEPT !.raised = FALSE]

-----------------------------------------------------------------------------
(* Properties of the fallback of upload_labels, checked under SpecUpload *)

\* The REST attempt of the upload_labels call that has returned.
RestAttempt == rest_upload_labels_batch(router.dev, ChangedItems(call.labels), call.cb_raise_at)

UploadAttempted == call.op = "upload_labels" /\ ChangedItems(call.labels) # <<>>

\* C32: upload_labels attempts Telnet if and only if the REST attempt raised
\* or reported zero successes; once REST reports at least one success its
\* result is returned and nothing is sent over Telnet, so the labels that
\* failed over REST in a partly successful batch are not retried.
TelnetOnlyAfterRestGaveNothing ==
    UploadAttempted =>
        /\ call.result.connections[1] = "rest"
        /\ (\E i \in 1..Len(call.result.connections) : call.result.connections[i] = "telnet")
              <=> (RestAttempt.raised \/ RestAttempt.success_count = 0)
        /\ (~RestAttempt.raised /\ RestAttempt.success_count > 0) =>
              /\ call.result.connections = <<"rest">>
              /\ call.result.success_count = RestAttempt.success_count
              /\ call.result.error_count = RestAttempt.error_count
              /\ call.result.error_messages = RestAttempt.error_messages
              /\ call.result.log = RestAttempt.log

\* A batch that REST served in part was returned without a Telnet attempt.
PartlyServedBatchWasReturned ==
    /\ UploadAttempted
    /\ ~RestAttempt.raised
    /\ RestAttempt.success_count > 0 /\ RestAttempt.error_count > 0
    /\ call.result.connections = <<"rest">>
    /\ call.result.error_count = RestAttempt.error_count

-----------------------------------------------------------------------------
(* Properties of the Telnet stage of a download, checked under Spec *)

\* The generated default of the port query c asks for.
QueryDefault(c) ==
    Str(IF c <= TELNET_PORT_COUNT THEN generate_input_label(PortAt(c))
        ELSE generate_output_label(PortAt(c)))

\* C34: the label TelnetClient.download_labels stores for port n is parsed
\* from the device's reply to the query for port n: a reply that arrives after
\* its command's timeout expired is never taken as the reply to a later
\* command.
StoredLabelIsFromOwnReply ==
    (call.op = "download" /\ "telnet" \in DOMAIN call.result.produced
       /\ router.connect = "ok" /\ call.result.produced["telnet"] # NoneV) =>
        \A c \in 1..(2 * TELNET_PORT_COUNT) :
            \/ TelnetEntry(call.result.produced["telnet"], c) = QueryDefault(c)
            \/ /\ router.queries[c].kind = "reply"
               /\ TelnetEntry(call.result.produced["telnet"], c) = ReplyLabel(c)

\* C35: every connection opened by a protocol operation is closed by the
\* time the operation ends, whether it succeeds, fails or raises, including a
\* Telnet connect that fails after the TCP connection was opened.
DownloadClosesItsConnections ==
    (call.op = "download"
       /\ \E i \in 1..Len(call.result.stages) : call.result.stages[i] = "telnet") =>
        ~telnet_session_leaves_open(router.connect)

\* The sessions that connect, or never open a socket, leave none open.
SettledSessionsAreClosed ==
    (call.op = "download" /\ router.connect # "banner_error") =>
        ~telnet_session_leaves_open(router.connect)

\* The download returned the generated defaults: no stage gave labels, or
\* the exception handler converted the defaults.
ReturnedGeneratedDefaults ==
    /\ call.op = "download" /\ ~call.result.raised
    /\ \/ call.result.path = "except"
       \/ \E i \in 1..Len(call.result.stages) : call.result.stages[i] = "default"

\* C36: whenever download_labels returns generated default labels, including
\* through its exception path, the recorded last protocol afterwards is
\* DEFAULT; it is never left at, or set to, a protocol that did not serve the
\* returned labels.
DefaultsAreRecordedAsDefault ==
    ReturnedGeneratedDefaults => last_protocol = "default"

\* Outside the exception path the defaults are recorded as DEFAULT.
FallbackDefaultsAreRecorded ==
    (ReturnedGeneratedDefaults /\ call.result.path = "try") => last_protocol = "default"

\* The (port_number, port_type) pairs of a list of labels.
PairsOf(labels) == {<<labels[i].port_number, labels[i].port_type>> : i \in 1..Len(labels)}

\* C37: every list returned by download_labels contains each (port_number,
\* port_type) pair at most once and consists of exactly INPUT ports 1..32 and
\* OUTPUT ports 1..32, whichever stage produced it, including a REST bulk
\* response that carries only an inputs list or only an outputs list.
ReturnedListCoversAllPorts ==
    (call.op = "download" /\ ~call.result.raised) =>
        /\ Len(call.result.labels) = 2 * DEFAULT_PORTS
        /\ PairsOf(call.result.labels) = (1..DEFAULT_PORTS) \X {"INPUT", "OUTPUT"}

\* What holds of every returned list: no pair twice, no port beyond 32.
ReturnedPairsAreUnique ==
    (call.op = "download" /\ ~call.result.raised) =>
        /\ Cardinality(PairsOf(call.result.labels)) = Len(call.result.labels)
        /\ PairsOf(call.result.labels) \subseteq (1..DEFAULT_PORTS) \X {"INPUT", "OUTPUT"}

-----------------------------------------------------------------------------
(* Properties of truncated LW3 responses, checked under SpecLw3 *)

\* The response to command k opened the block of the request and ended
\* before the closing line.
Truncated(k) ==
    /\ WireOfCommand(k).send = "ok"
    /\ OwnOpenings(k) # {} /\ OwnClosings(k) = {}

\* C38: when reading an LW3 response stops after the matching block was
\* opened but before its closing '}' line, the lines accumulated so far are
\* discarded: _lw3_send_command returns an empty result and
\* upload_lightware_label reports failure, never success on a truncated
\* response.
TruncatedBlockIsDiscarded ==
    call.op \in {"open", "closed"} =>
        \A k \in 1..Len(call.sent) :
            Truncated(k) =>
                /\ call.replies[k].kind = "lines" /\ call.replies[k].lines = <<>>
                /\ (call.op = "closed" /\ call.caller = "upload_lightware_label")
                       => ~call.result.ok

-----------------------------------------------------------------------------
(* Properties of the Telnet upload, checked under SpecUpload *)

\* The set commands of the batch that the device answered with a line.
AnsweredSets ==
    {i \in DOMAIN router.sets \cap 1..Len(call.labels) :
        router.sets[i].kind \in {"reply", "late"}}

\* C39: TelnetClient.upload_label counts a label as uploaded only if the
\* device answered the set command with a line; when the read returns no data
\* because the peer closed the connection (end of stream), like on a timeout
\* or I/O error, the label is counted as failed.
TelnetCountsOnlyAnsweredSets ==
    call.op = "telnet_batch" =>
        call.result.success_count <= Cardinality(AnsweredSets)

\* The labels of a batch whose commands all timed out are counted as failed.
SilentSetsAreCountedFailed ==
    (/\ call.op = "telnet_batch"
     /\ \A i \in DOMAIN router.sets : router.sets[i].kind = "silent")
        => call.result.success_count = 0

-----------------------------------------------------------------------------
(* agents/file_handler: json_handler.py, csv_handler.py, FileHandlerAgent   *)
(* and the conversion of a loaded file into labels (cli.py)                 *)

FileFormats == {"excel", "csv", "json"}

\* JSONHandler._port_to_dict
port_to_dict(port_data) ==
    [port |-> Num(port_data.port), type |-> Str(port_data.type),
     current_label |-> Str(port_data.current_label),
     new_label |-> IF Truthy(port_data.new_label) THEN port_data.new_label ELSE Str(""),
     notes |-> Str(port_data.notes)]

\* JSONHandler.write_json(path, data, nested=True): the document of the file
write_json(data) ==
    [inputs |-> [i \in 1..Len(SelectSeq(data, LAMBDA p : p.type = "INPUT")) |->
                    port_to_dict(SelectSeq(data, LAMBDA p : p.type = "INPUT")[i])],
     outputs |-> [i \in 1..Len(SelectSeq(data, LAMBDA p : p.type # "INPUT")) |->
                    port_to_dict(SelectSeq(data, LAMBDA p : p.type # "INPUT")[i])]]

\* PortData's validator strip_strings on new_label
StripOptional(v) == IF v = NoneV THEN NoneV ELSE Str(Strip(v.s))

\* JSONHandler._parse_port_dict of a dictionary that holds the five keys
parse_port_dict(port_dict) ==
    PortData(port_dict.port.n, PyStr(port_dict.type),
             Strip(PyStr(port_dict.current_label)),
             StripOptional(port_dict.new_label),
             Strip(PyStr(port_dict.notes)))

\* The ports of a handler's read once each PortData and the FileData are
\* validated: a ValidationError is a ValueError, which the handlers re-raise.
ValidatedFileData(ports) ==
    IF /\ \A i \in 1..Len(ports) :
              PortDataValid(ports[i].port, ports[i].type, ports[i].current_label,
                            ports[i].new_label)
       /\ validate_ports(ports)
    THEN [raised |-> FALSE, ports |-> ports]
    ELSE [raised |-> TRUE, ports |-> <<>>]

\* JSONHandler.read_json of a file that holds the nested document
read_json(document) ==
    ValidatedFileData([i \in 1..Len(document.inputs) |-> parse_port_dict(document.inputs[i])]
                      \o [i \in 1..Len(document.outputs) |->
                              parse_port_dict(document.outputs[i])])

\* CSVHandler.write_csv: the fields of the records after the header, every
\* field quoted (QUOTE_ALL)
write_csv(data) ==
    [i \in 1..Len(data) |->
        <<ToString(data[i].port), data[i].type, data[i].current_label,
          IF Truthy(data[i].new_label) THEN data[i].new_label.s ELSE "",
          data[i].notes>>]

\* CSVHandler.read_csv, lines 65-75: the PortData of a record; the texts are
\* read as they are (keep_default_na=False), Port as an int
CsvPortData(row) ==
    PortData(ParseInt(row[1]).n, Strip(row[2]), Strip(row[3]),
             IF row[4] # "" THEN Str(Strip(row[4])) ELSE NoneV,
             Strip(row[5]))

\* CSVHandler.read_csv
read_csv(rows) ==
    IF \E i \in 1..Len(rows) : ~ParseInt(rows[i][1]).ok
    THEN [raised |-> TRUE, ports |-> <<>>]
    ELSE ValidatedFileData([i \in 1..Len(rows) |-> CsvPortData(rows[i])])

\* FileHandlerAgent.save(path, data, file_format): what the file holds
save(file_format, data) ==
    CASE file_format = "excel" -> write_excel(data)
      [] file_format = "csv" -> write_csv(data)
      [] file_format = "json" -> write_json(data)

\* FileHandlerAgent.load(path, file_format)
load(file_format, file) ==
    CASE file_format = "excel" -> read_excel(file)
      [] file_format = "csv" -> read_csv(file)
      [] file_format = "json" -> read_json(file)

\* filedata_to_labels (cli.py)
filedata_to_labels(ports) ==
    [i \in 1..Len(ports) |->
        Label(ports[i].port, ports[i].type, Str(ports[i].current_label), ports[i].new_label)]

InitFile ==
    /\ router = DeadDevice
    /\ last_protocol = "none"
    /\ call \in {[op |-> "save", format |-> f, data |-> data] :
                    f \in FileFormats, data \in FileDatas}

\* handler.save(path, data, file_format)
Save ==
    /\ call.op = "save"
    /\ call' = [op |-> "saved", format |-> call.format, data |-> call.data,
                file |-> save(call.format, call.data)]
    /\ UNCHANGED <<router, last_protocol>>

\* labels = filedata_to_labels(handler.load(path))
Load ==
    /\ call.op = "saved"
    /\ call' = [op |-> "loaded", format |-> call.format, data |-> call.data,
                file |-> call.file,
                raised |-> load(call.format, call.file).raised,
                labels |-> filedata_to_labels(load(call.format, call.file).ports)]
    /\ UNCHANGED <<router, last_protocol>>

NextFile == Save \/ Load

SpecFile == InitFile /\ [][NextFile]_vars

-----------------------------------------------------------------------------
(* Properties of a saved and reloaded file, checked under SpecFile *)

\* A file was saved from labels without pending changes and loaded back.
UneditedFileLoaded ==
    /\ call.op = "loaded" /\ ~call.raised
    /\ \A i \in 1..Len(call.data) : call.data[i].new_label = NoneV

\* C40: in each supported file format (Excel, CSV, JSON), saving labels that
\* have no pending changes with FileHandlerAgent.save and loading the file
\* back yields labels none of which has pending changes (new_label absent),
\* so uploading an unedited downloaded file writes nothing to the device.
UneditedFileHasNoChanges ==
    UneditedFileLoaded =>
        \A i \in 1..Len(call.labels) :
            call.labels[i].new_label = NoneV /\ ~has_changes(call.labels[i])

\* The same of the Excel and CSV formats alone.
UneditedSheetHasNoChanges ==
    (UneditedFileLoaded /\ call.format \in {"excel", "csv"}) =>
        \A i \in 1..Len(call.labels) :
            call.labels[i].new_label = NoneV /\ ~has_changes(call.labels[i])

=============================================================================
